---- MODULE Spec2Model ----
(***************************************************************************)
(* SMITE v1.1 settlement engine: the swap state machine                    *)
(* (services/swap_service.rs), plain transfers (services/send_service.rs)  *)
(* and the wire bridge saga (services/wire_service.rs) over the ledger     *)
(* store (db/account.rs).                                                  *)
(*                                                                         *)
(* Every handler is an async function that awaits one SQL statement after  *)
(* another on a shared connection pool; serenity runs each inbound message *)
(* as its own task (main.rs: Handler::message), so the statements of       *)
(* concurrent handlers interleave.  A step of the model is one awaited     *)
(* statement (or a run of statements that touch no shared mutable row).    *)
(* Money amounts are integers (minor units).                               *)
(***************************************************************************)
EXTENDS Integers, Sequences, FiniteSets, TLC

----------------------------------------------------------------------------
(* Bounds of the model *)

InitBalance == 2
MaxSwaps == 2
MaxCalls == 3

Procs == {1, 2}
Users == {1, 2}
Curs == {"ABC", "XYZ"}
MakerAmounts == {2}
TakerAmounts == {1}
SendAmounts == {1}

\* the wire bridge: local balances are in minor units, MinorPerUnit to the whole
\* unit; the external service keeps whole units (i64)
MinorPerUnit == 2
MaxWireCalls == 2
InitBank == 2
WireAmounts == {2, 3}
Keys == {"set", "unset"}

\* the outbound limiter: the clock counts ticks, `window` of them to the second
max_requests == 20
window == 2
MaxClock == 3
MaxPasses == 2 * max_requests + 1
MaxPairCalls == 2
Ticks == 0..(MaxClock + window)
SwapIds == 1..MaxSwaps

\* the admission gates: the wall clock counts the same ticks; a HashMap entry
\* that is absent is NoTime
COOLDOWN_SECONDS == 5
GLOBAL_RATE_LIMIT == 50
RATE_WINDOW_MS == 1000
MaxSeconds == 6
MaxGateCalls == 3
NoTime == -1
CooldownKeys == {<<1, "$swap">>, <<1, "$ping">>}
Gates == {"check_cooldown", "handle_message"}

\* the tax ledger: percentages set_tax is given, and what $tax collect is asked
\* for (amount: Option<String>; None and "all" both ask for everything)
TaxPercents == {0, 100}
CollectAmounts == {1, 2}
CollectRequests == {[all |-> TRUE, value |-> 0]} \cup {[all |-> FALSE, value |-> v] : v \in CollectAmounts}

(* An account row is identified by (discord_id, currency_id). *)
Acct == Users \X Curs
NoAcct == <<0, "none">>

NoSwap == [maker_id |-> NoAcct, taker_id |-> NoAcct, maker_currency_id |-> "none",
           taker_currency_id |-> "none", maker_amount |-> 0, taker_amount |-> 0,
           status |-> "none"]

ZeroDelta == [a \in Acct |-> 0]

Idle == [pc |-> "idle", op |-> "none", user |-> 0, sid |-> 0,
         amount |-> 0, cur |-> "none", taker |-> 0, taker_amount |-> 0,
         taker_cur |-> "none", det |-> NoSwap, wrote |-> FALSE,
         eff |-> ZeroDelta,
         dir |-> "none", start |-> 0, current_smite_balance |-> 0, ub_bank_amount |-> 0,
         committed |-> FALSE, failed |-> "none", dirty |-> FALSE, key |-> "none",
         tax_percentage |-> 0, tax_amount |-> 0, requested |-> [all |-> FALSE, value |-> 0],
         current_balance |-> 0, collect_amount |-> 0, now |-> 0, command |-> "none"]

ZeroRet == [acceptOk |-> 0, acceptNotPending |-> <<>>, denyOk |-> 0, denyNotPending |-> <<>>,
            acceptUnauthorized |-> 0, denyUnauthorized |-> 0, legs |-> <<>>,
            asked |-> [taker_amount |-> 0, taker_cur |-> "none"], acceptErr |-> 0]

\* no admission decision made yet
NoDecision == [fn |-> "none", key |-> <<0, "none">>, at |-> 0, now |-> 0, ok |-> FALSE,
               remaining |-> 0, warn |-> FALSE,
               admitted_at |-> [f \in Gates |-> [k \in CooldownKeys |-> NoTime]],
               rejected |-> [f \in Gates |-> [k \in CooldownKeys |-> FALSE]],
               admitted |-> [t \in Ticks |-> 0]]

VARIABLES
    accounts,      \* account table: the rows that exist
    balance,       \* account.balance, by account row (0 where no row exists)
    swaps,         \* currency_swap table; the swap id is the index
    transactions,  \* transaction table
    proc,          \* the running handlers: position and local variables
    calls,         \* number of handler invocations so far
    delta,         \* history: balance change applied on behalf of each swap, by kind of call
    ret,           \* history: results returned by accept and deny, per swap
    api_token,     \* currencies with a stored UnbelievaBoat token
    ub_bank,       \* the external service: bank balance of each user
    wlog,          \* history: the record of the wire call that returned last
    tradelog,      \* tradelog table
    orphan,        \* history: balance change of create calls that returned an error
    request_times, \* UB_RATE_LIMITER.request_times
    clock,         \* Instant::now()
    sleeping,      \* callers asleep in rate_limit_ub_api, counted by the tick they wake at
    issued,        \* history: calls sent to the external service, counted by tick
    lim,           \* history: the last pass through check_and_record
    pairlog,       \* history: the calls of normalize_pair and what they returned
    tax_account,   \* tax_account table, by currency
    taxlog,        \* history: the collect call that returned last
    envelopes,     \* history: the calls of encrypt_token and decrypt_token
    ratelimit,     \* the statics of utils/ratelimit.rs
    command_cooldowns, \* COMMAND_COOLDOWNS of commands/mod.rs
    system_time,   \* SystemTime::now() since UNIX_EPOCH, in ticks
    admitlog       \* history: the admission decision made last, and the admissions before it

ledger == <<accounts, balance>>
swapvars == <<swaps, transactions, delta, ret, tradelog, orphan>>
wirevars == <<api_token, ub_bank, wlog>>
ratevars == <<request_times, clock, sleeping, issued, lim>>
taxvars == <<tax_account, taxlog>>
gatevars == <<ratelimit, command_cooldowns, system_time, admitlog>>
auxvars == <<tax_account, taxlog, envelopes, ratelimit, command_cooldowns, system_time, admitlog>>
vars == <<accounts, balance, swaps, transactions, proc, calls, delta, ret,
          api_token, ub_bank, wlog, tradelog, orphan,
          request_times, clock, sleeping, issued, lim, pairlog,
          tax_account, taxlog, envelopes, ratelimit, command_cooldowns, system_time, admitlog>>

----------------------------------------------------------------------------
(* db/account.rs *)

get_account_id(accts, discord_id, currency_id) ==
    IF <<discord_id, currency_id>> \in accts THEN <<discord_id, currency_id>> ELSE NoAcct

create_account(accts, discord_id, currency_id) ==
    accts \cup {<<discord_id, currency_id>>}

get_account_balance(bal, discord_id, currency_id) ==
    bal[<<discord_id, currency_id>>]

update_balance(bal, account_id, amount) ==
    [bal EXCEPT ![account_id] = @ + amount]

get_discord_id_by_account_id(account_id) == account_id[1]

(* db/currency.rs: a currency is identified by its ticker; "none" stands for None *)
get_currency_by_ticker(ticker) == IF ticker \in Curs THEN ticker ELSE "none"

(* db/transaction.rs *)
create_transaction(txs, sender_id, receiver_id, amount) ==
    Append(txs, [sender_id |-> sender_id, receiver_id |-> receiver_id, amount |-> amount])

(* db/tax.rs *)
NoTax == [exists |-> FALSE, balance |-> 0, tax_percentage |-> 0]

get_tax_account(ta, currency_id) == ta[currency_id]

create_tax_account(ta, currency_id, tax_percentage) ==
    [ta EXCEPT ![currency_id] = [exists |-> TRUE, balance |-> 0, tax_percentage |-> tax_percentage]]

\* an UPDATE: it changes the row when there is one
set_tax_percentage(ta, currency_id, tax_percentage) ==
    [ta EXCEPT ![currency_id].tax_percentage = IF ta[currency_id].exists THEN tax_percentage ELSE @]

add_tax(ta, currency_id, amount) ==
    [ta EXCEPT ![currency_id].balance = IF ta[currency_id].exists THEN @ + amount ELSE @]

\* None (no tax account) is read as 0 by the caller: unwrap_or(0)
get_tax_percentage(ta, currency_id) ==
    IF ta[currency_id].exists THEN ta[currency_id].tax_percentage ELSE 0

\* the UPDATE of collect_tax: balance = balance - collect_amount
deduct_tax(ta, currency_id, collect_amount) ==
    [ta EXCEPT ![currency_id].balance = IF ta[currency_id].exists THEN @ - collect_amount ELSE @]

(* db/tradelog.rs *)
\* the ids normalize_pair may be given: the currencies of the ledger, one more
\* currency, and "none", an id without a currency row (its ticker reads as "")
PairCurs == Curs \cup {"ABCD", "none"}

\* position of each ticker in the order of String comparison
TickerOrder == [c \in PairCurs |-> CASE c = "none" -> 0 [] c = "ABC" -> 1 [] c = "ABCD" -> 2 [] OTHER -> 3]

\* variant of normalize_pair that returns the pair in the order it was given
normalize_pair_AsGiven(currency_id_1, currency_id_2) ==
    <<currency_id_1, currency_id_2, FALSE>>

\* returns (base_currency_id, quote_currency_id, is_reversed)
normalize_pair(currency_id_1, currency_id_2) ==
    IF TickerOrder[currency_id_1] <= TickerOrder[currency_id_2]
    THEN <<currency_id_1, currency_id_2, FALSE>>
    ELSE <<currency_id_2, currency_id_1, TRUE>>

\* a price is the ratio <<quote amount, base amount>>
add_price_log(log, base_currency_id, quote_currency_id, price) ==
    Append(log, [base_currency_id |-> base_currency_id,
                 quote_currency_id |-> quote_currency_id, price |-> price])

(* db/swap.rs as called from services/swap_service.rs *)
insert_swap(sw, maker_id, taker_id, maker_currency_id, taker_currency_id, maker_amount, taker_amount) ==
    Append(sw, [maker_id |-> maker_id, taker_id |-> taker_id,
                maker_currency_id |-> maker_currency_id,
                taker_currency_id |-> taker_currency_id,
                maker_amount |-> maker_amount, taker_amount |-> taker_amount,
                status |-> "pending"])

update_swap_status(sw, id, status) ==
    [sw EXCEPT ![id].status = status]

update_swap_with_taker(sw, id, taker_id, status) ==
    [sw EXCEPT ![id].taker_id = taker_id, ![id].status = status]

get_swap_by_id(sw, id) ==
    IF id \in 1..Len(sw) THEN sw[id] ELSE NoSwap

----------------------------------------------------------------------------
(* Bookkeeping shared by the actions *)

\* the balance change a statement makes, recorded against swap s and kind k
Moved(s, k, newbal) ==
    [delta EXCEPT ![s][k] = [a \in Acct |-> @[a] + (newbal[a] - balance[a])]]

\* a message arrives and its handler takes the first free slot
Begin(p, limit) ==
    /\ proc[p].pc = "idle"
    /\ \A q \in Procs : q < p => proc[q].pc # "idle"
    /\ calls < limit
    /\ calls' = calls + 1

Start(p) == Begin(p, MaxCalls)

Creating == {q \in Procs : proc[q].op = "create"}

WireRecord(w, result, compensated, bal) ==
    [user |-> w.user, dir |-> w.dir, cur |-> w.cur,
     amount |-> w.amount, result |-> result, committed |-> w.committed,
     failed |-> w.failed, compensated |-> compensated, start |-> w.start,
     current_smite_balance |-> w.current_smite_balance,
     ub_bank_amount |-> w.ub_bank_amount,
     after |-> bal[<<w.user, w.cur>>], dirty |-> w.dirty, key |-> w.key]

NoCollect ==
    [n |-> 0, user |-> 0, cur |-> "none", requested |-> [all |-> FALSE, value |-> 0],
     pool |-> 0, collected |-> 0, result |-> "none"]

Init ==
    /\ accounts = {<<1, "ABC">>, <<1, "XYZ">>, <<2, "XYZ">>}
    /\ balance = [a \in Acct |-> IF a \in {<<1, "ABC">>, <<1, "XYZ">>, <<2, "XYZ">>}
                                  THEN InitBalance ELSE 0]
    /\ swaps = <<>>
    /\ transactions = <<>>
    /\ proc = [p \in Procs |-> Idle]
    /\ calls = 0
    /\ delta = [s \in SwapIds |-> [create |-> ZeroDelta, accept |-> ZeroDelta, deny |-> ZeroDelta]]
    /\ ret = [s \in SwapIds |-> ZeroRet]
    /\ api_token = {"ABC"}
    /\ ub_bank = [u \in Users |-> InitBank]
    /\ wlog = WireRecord(Idle, "none", FALSE, [a \in Acct \cup {<<0, "none">>} |-> 0])
    /\ tradelog = <<>>
    /\ orphan = ZeroDelta
    /\ request_times = <<>>
    /\ clock = 0
    /\ sleeping = [t \in Ticks |-> 0]
    /\ issued = [t \in Ticks |-> 0]
    /\ lim = [n |-> 0, first |-> 0, now |-> 0, wait |-> 0, recorded |-> FALSE]
    /\ pairlog = <<>>
    /\ tax_account = [c \in Curs |-> NoTax]
    /\ taxlog = NoCollect
    /\ envelopes = <<>>
    /\ ratelimit = [COMMAND_COOLDOWNS |-> [k \in CooldownKeys |-> NoTime],
                    COOLDOWN_WARNINGS |-> [k \in CooldownKeys |-> NoTime],
                    GLOBAL_REQUESTS |-> <<>>]
    /\ command_cooldowns = [k \in CooldownKeys |-> NoTime]
    /\ system_time = window
    /\ admitlog = NoDecision

Return(p) == proc' = [proc EXCEPT ![p] = Idle]

Goto(p, label) == proc' = [proc EXCEPT ![p].pc = label]

----------------------------------------------------------------------------
(* services/swap_service.rs: execute_swap (create) *)

\* lines 50-72: maker's currency and account must exist, maker_balance >= maker_amount.
\* taker_id = 0 stands for None (an open swap); an open swap may still name the
\* amount and currency the maker asks for (commands/swap.rs lines 205-226).
ExecuteSwapStart(p, maker_id, maker_amount, maker_ticker, taker_id, taker_amount, taker_ticker) ==
    /\ Start(p)
    /\ Len(swaps) + Cardinality(Creating) < MaxSwaps
    /\ IF get_currency_by_ticker(maker_ticker) = "none"
          \/ get_account_id(accounts, maker_id, maker_ticker) = NoAcct
          \/ get_account_balance(balance, maker_id, maker_ticker) < maker_amount
       THEN proc' = proc
       ELSE proc' = [proc EXCEPT ![p] =
                [Idle EXCEPT !.pc = IF taker_id # 0 THEN "c_taker" ELSE "c_debit",
                             !.op = "create", !.user = maker_id,
                             !.amount = maker_amount, !.cur = maker_ticker,
                             !.taker = taker_id, !.taker_amount = taker_amount,
                             !.taker_cur = taker_ticker]]
    /\ UNCHANGED <<accounts, balance, swaps, transactions, delta, ret, wirevars, ratevars, pairlog, auxvars, tradelog, orphan>>

\* lines 75-104: get or create the taker's account, taker_balance >= taker_amount (advisory)
ExecuteSwapCheckTaker(p) ==
    /\ proc[p].pc = "c_taker"
    /\ IF get_currency_by_ticker(proc[p].taker_cur) = "none"
       THEN accounts' = accounts /\ Return(p)
       ELSE /\ accounts' = create_account(accounts, proc[p].taker, proc[p].taker_cur)
            /\ IF get_account_balance(balance, proc[p].taker, proc[p].taker_cur) < proc[p].taker_amount
               THEN Return(p)
               ELSE Goto(p, "c_debit")
    /\ UNCHANGED <<balance, swaps, transactions, calls, delta, ret, wirevars, ratevars, pairlog, auxvars, tradelog, orphan>>

\* variant of the debit step in which the escrow is deferred: the maker's balance
\* is left alone at creation
ExecuteSwapDebit_Deferred(p) ==
    /\ proc[p].pc = "c_debit"
    /\ balance' = balance
    /\ Goto(p, "c_insert")
    /\ UNCHANGED <<accounts, swaps, transactions, calls, delta, ret, wirevars, ratevars, pairlog, auxvars, tradelog, orphan>>

\* lines 106-110 (targeted) and 161-165 (open): deduct the maker's balance
ExecuteSwapDebit(p) ==
    /\ proc[p].pc = "c_debit"
    /\ LET maker_account_id == <<proc[p].user, proc[p].cur>>
           newbal == update_balance(balance, maker_account_id, -proc[p].amount)
       IN /\ balance' = newbal
          /\ proc' = [proc EXCEPT ![p].pc = "c_insert",
                                  ![p].eff = [a \in Acct |-> @[a] + (newbal[a] - balance[a])]]
    /\ UNCHANGED <<accounts, swaps, transactions, calls, delta, ret, wirevars, ratevars, pairlog, auxvars, tradelog, orphan>>

\* lines 112-122 (targeted) and 167-176 (open): insert the swap row, return Ok
ExecuteSwapInsert(p) ==
    /\ proc[p].pc = "c_insert"
    /\ LET maker_account_id == <<proc[p].user, proc[p].cur>>
           id == Len(swaps) + 1
       IN /\ swaps' = IF proc[p].taker # 0
                      THEN insert_swap(swaps, maker_account_id,
                                       <<proc[p].taker, proc[p].taker_cur>>,
                                       proc[p].cur, proc[p].taker_cur,
                                       proc[p].amount, proc[p].taker_amount)
                      ELSE insert_swap(swaps, maker_account_id, NoAcct,
                                       proc[p].cur, proc[p].cur, proc[p].amount, 0)
          /\ delta' = [delta EXCEPT ![id].create = proc[p].eff]
          /\ ret' = [ret EXCEPT ![id].asked = [taker_amount |-> proc[p].taker_amount,
                                               taker_cur |-> proc[p].taker_cur]]
    /\ Return(p)
    /\ UNCHANGED <<accounts, balance, transactions, calls, wirevars, ratevars, pairlog, auxvars, tradelog, orphan>>

----------------------------------------------------------------------------
(* services/swap_service.rs: accept_swap *)

taker_discord_id(det) ==
    IF det.taker_id # NoAcct THEN get_discord_id_by_account_id(det.taker_id) ELSE 0

\* variant of the authorization in which any actor may accept
AcceptAuthorized_Any(user_id, det) == TRUE

\* lines 248-259
AcceptAuthorized(user_id, det) ==
    IF taker_discord_id(det) # 0
    THEN user_id = taker_discord_id(det)
    ELSE user_id # get_discord_id_by_account_id(det.maker_id)

\* variant of the error that does not look at the status
accept_not_pending_Generic(status) ==
    [text |-> "Swap is not pending", arg |-> ""]

\* lines 213-223: the error returned for a swap that is not pending; arg is the
\* value formatted into the text
accept_not_pending(status) ==
    IF status = "accepted" THEN [text |-> "This swap has already been accepted!", arg |-> ""]
    ELSE IF status = "cancelled" THEN [text |-> "This swap has been cancelled!", arg |-> ""]
    ELSE IF status = "expired" THEN [text |-> "This swap has expired!", arg |-> ""]
    ELSE [text |-> "Swap status is '{}', cannot accept.", arg |-> status]

\* lines 209-259: load the swap, require status pending, authorize the actor
AcceptSwapStart(p, user_id, id) ==
    /\ Start(p)
    /\ LET det == get_swap_by_id(swaps, id)
       IN IF det = NoSwap
          THEN proc' = proc /\ ret' = ret
          ELSE IF det.status # "pending"
          THEN proc' = proc /\ ret' = [ret EXCEPT ![id].acceptNotPending =
                                                    Append(@, accept_not_pending(det.status))]
          ELSE IF ~AcceptAuthorized(user_id, det)
          THEN proc' = proc /\ ret' = [ret EXCEPT ![id].acceptUnauthorized = @ + 1]
          ELSE /\ proc' = [proc EXCEPT ![p] =
                      [Idle EXCEPT !.pc = "a_check", !.op = "accept",
                                   !.user = user_id, !.sid = id, !.det = det]]
               /\ ret' = ret
    /\ UNCHANGED <<accounts, balance, swaps, transactions, delta, wirevars, ratevars, pairlog, auxvars, tradelog, orphan>>

\* lines 261-297: get or create the actor's accounts; for a targeted swap check the balance
AcceptSwapCheck(p) ==
    /\ proc[p].pc = "a_check"
    /\ LET det == proc[p].det
           user_id == proc[p].user
       IN /\ accounts' = create_account(create_account(accounts, user_id, det.taker_currency_id),
                                        user_id, det.maker_currency_id)
          /\ IF det.taker_id # NoAcct
                /\ get_account_balance(balance, user_id, det.taker_currency_id) < det.taker_amount
             THEN Return(p)
             ELSE Goto(p, "a_debit")
    /\ UNCHANGED <<balance, swaps, transactions, calls, delta, ret, wirevars, ratevars, pairlog, auxvars, tradelog, orphan>>

\* lines 302-304 (open) and 311-313 (targeted): deduct taker_amount from the actor
AcceptSwapDebit(p) ==
    /\ proc[p].pc = "a_debit"
    /\ LET det == proc[p].det
           user_taker_account_id == <<proc[p].user, det.taker_currency_id>>
           newbal == update_balance(balance, user_taker_account_id, -det.taker_amount)
       IN /\ balance' = newbal
          /\ delta' = Moved(proc[p].sid, "accept", newbal)
    /\ Goto(p, "a_status")
    /\ UNCHANGED <<accounts, swaps, transactions, calls, ret, wirevars, ratevars, pairlog, auxvars, tradelog, orphan>>

\* lines 306-308 (open: bind the taker) and 316-318 (targeted): status accepted
AcceptSwapStatus(p) ==
    /\ proc[p].pc = "a_status"
    /\ LET det == proc[p].det
           user_taker_account_id == <<proc[p].user, det.taker_currency_id>>
       IN swaps' = IF det.taker_id = NoAcct
                   THEN update_swap_with_taker(swaps, proc[p].sid, user_taker_account_id, "accepted")
                   ELSE update_swap_status(swaps, proc[p].sid, "accepted")
    /\ proc' = [proc EXCEPT ![p].pc = "a_credit_user", ![p].wrote = TRUE]
    /\ UNCHANGED <<accounts, balance, transactions, calls, delta, ret, wirevars, ratevars, pairlog, auxvars, tradelog, orphan>>

\* lines 321-337: the actor receives maker_amount in the maker's currency
AcceptSwapCreditUser(p) ==
    /\ proc[p].pc = "a_credit_user"
    /\ LET det == proc[p].det
           user_maker_account_id == <<proc[p].user, det.maker_currency_id>>
           newbal == update_balance(balance, user_maker_account_id, det.maker_amount)
       IN /\ accounts' = create_account(accounts, proc[p].user, det.maker_currency_id)
          /\ balance' = newbal
          /\ delta' = Moved(proc[p].sid, "accept", newbal)
    /\ Goto(p, "a_credit_maker")
    /\ UNCHANGED <<swaps, transactions, calls, ret, wirevars, ratevars, pairlog, auxvars, tradelog, orphan>>

\* lines 339-354: the maker receives taker_amount in the taker's currency
AcceptSwapCreditMaker(p) ==
    /\ proc[p].pc = "a_credit_maker"
    /\ LET det == proc[p].det
           maker_discord_id == get_discord_id_by_account_id(det.maker_id)
           maker_taker_account_id == <<maker_discord_id, det.taker_currency_id>>
           newbal == update_balance(balance, maker_taker_account_id, det.taker_amount)
       IN /\ accounts' = create_account(accounts, maker_discord_id, det.taker_currency_id)
          /\ balance' = newbal
          /\ delta' = Moved(proc[p].sid, "accept", newbal)
    /\ Goto(p, "a_log")
    /\ UNCHANGED <<swaps, transactions, calls, ret, wirevars, ratevars, pairlog, auxvars, tradelog, orphan>>

\* lines 356-401: transaction 1 (actor -> maker, taker_amount), transaction 2
\* (maker -> actor, maker_amount); return Ok
AcceptSwapLog(p) ==
    /\ proc[p].pc = "a_log"
    /\ LET det == proc[p].det
           maker_discord_id == get_discord_id_by_account_id(det.maker_id)
           user_taker_account_id == <<proc[p].user, det.taker_currency_id>>
           maker_taker_account_id == <<maker_discord_id, det.taker_currency_id>>
           user_maker_account_id == <<proc[p].user, det.maker_currency_id>>
       IN transactions' =
              create_transaction(
                  create_transaction(transactions, user_taker_account_id,
                                     maker_taker_account_id, det.taker_amount),
                  det.maker_id, user_maker_account_id, det.maker_amount)
    /\ ret' = [ret EXCEPT ![proc[p].sid].acceptOk = @ + 1,
                           ![proc[p].sid].legs =
                               @ \o SubSeq(transactions', Len(transactions) + 1, Len(transactions'))]
    /\ Return(p)
    /\ UNCHANGED <<accounts, balance, swaps, calls, delta, wirevars, ratevars, pairlog, auxvars, tradelog, orphan>>

----------------------------------------------------------------------------
(* services/swap_service.rs: deny_swap *)

\* variant of the authorization in which any actor may deny
DenyAuthorized_Any(user_id, det) == TRUE

\* line 460
DenyAuthorized(user_id, det) ==
    \/ user_id = get_discord_id_by_account_id(det.maker_id)
    \/ (taker_discord_id(det) # 0 /\ user_id = taker_discord_id(det))

\* lines 429-439: the error returned for a swap that is not pending
deny_not_pending(status) ==
    IF status = "accepted" THEN [text |-> "This swap has already been accepted!", arg |-> ""]
    ELSE IF status = "cancelled" THEN [text |-> "This swap has already been cancelled!", arg |-> ""]
    ELSE IF status = "expired" THEN [text |-> "This swap has expired!", arg |-> ""]
    ELSE [text |-> "Swap status is '{}', cannot deny.", arg |-> status]

\* lines 425-463: load the swap, require status pending, authorize the actor
DenySwapStart(p, user_id, id) ==
    /\ Start(p)
    /\ LET det == get_swap_by_id(swaps, id)
       IN IF det = NoSwap
          THEN proc' = proc /\ ret' = ret
          ELSE IF det.status # "pending"
          THEN proc' = proc /\ ret' = [ret EXCEPT ![id].denyNotPending =
                                                    Append(@, deny_not_pending(det.status))]
          ELSE IF ~DenyAuthorized(user_id, det)
          THEN proc' = proc /\ ret' = [ret EXCEPT ![id].denyUnauthorized = @ + 1]
          ELSE /\ proc' = [proc EXCEPT ![p] =
                      [Idle EXCEPT !.pc = "d_status", !.op = "deny",
                                   !.user = user_id, !.sid = id, !.det = det]]
               /\ ret' = ret
    /\ UNCHANGED <<accounts, balance, swaps, transactions, delta, wirevars, ratevars, pairlog, auxvars, tradelog, orphan>>

\* lines 467-470: mark the swap cancelled
DenySwapStatus(p) ==
    /\ proc[p].pc = "d_status"
    /\ swaps' = update_swap_status(swaps, proc[p].sid, "cancelled")
    /\ proc' = [proc EXCEPT ![p].pc = "d_refund_maker", ![p].wrote = TRUE]
    /\ UNCHANGED <<accounts, balance, transactions, calls, delta, ret, wirevars, ratevars, pairlog, auxvars, tradelog, orphan>>

\* lines 472-476: the maker gets maker_amount back; an open swap returns Ok here
DenySwapRefundMaker(p) ==
    /\ proc[p].pc = "d_refund_maker"
    /\ LET det == proc[p].det
           newbal == update_balance(balance, det.maker_id, det.maker_amount)
       IN /\ balance' = newbal
          /\ delta' = Moved(proc[p].sid, "deny", newbal)
          /\ IF det.taker_id # NoAcct
             THEN Goto(p, "d_refund_taker") /\ ret' = ret
             ELSE Return(p) /\ ret' = [ret EXCEPT ![proc[p].sid].denyOk = @ + 1]
    /\ UNCHANGED <<accounts, swaps, transactions, calls, wirevars, ratevars, pairlog, auxvars, tradelog, orphan>>

\* lines 478-483: "If targeted swap, refund taker too"; return Ok
DenySwapRefundTaker(p) ==
    /\ proc[p].pc = "d_refund_taker"
    /\ LET det == proc[p].det
           newbal == update_balance(balance, det.taker_id, det.taker_amount)
       IN /\ balance' = newbal
          /\ delta' = Moved(proc[p].sid, "deny", newbal)
    /\ ret' = [ret EXCEPT ![proc[p].sid].denyOk = @ + 1]
    /\ Return(p)
    /\ UNCHANGED <<accounts, swaps, transactions, calls, wirevars, ratevars, pairlog, auxvars, tradelog, orphan>>

----------------------------------------------------------------------------
(* services/send_service.rs: execute_send (no tax account: tax_percentage 0) *)

\* lines 83-87: the tax on a transfer; where the model runs it the division is exact
calculate_tax_None(amount, tax_percentage) == 0

calculate_tax(amount, tax_percentage) ==
    IF tax_percentage > 0 THEN (amount * tax_percentage) \div 100 ELSE 0

\* lines 32-99: no self transfer, sender account exists, receiver account is
\* created when missing, sender_balance >= total_deduction
ExecuteSendStart(p, sender_id, receiver_id, amount, currency_ticker) ==
    /\ Start(p)
    /\ IF sender_id = receiver_id
          \/ get_account_id(accounts, sender_id, currency_ticker) = NoAcct
       THEN proc' = proc /\ accounts' = accounts
       ELSE /\ accounts' = create_account(accounts, receiver_id, currency_ticker)
            /\ LET sender_balance == get_account_balance(balance, sender_id, currency_ticker)
                   tax_percentage == get_tax_percentage(tax_account, currency_ticker)
                   tax_amount == calculate_tax(amount, tax_percentage)
                   total_deduction == amount + tax_amount
               IN IF sender_balance < total_deduction
                  THEN proc' = proc
                  ELSE proc' = [proc EXCEPT ![p] =
                           [Idle EXCEPT !.pc = "s_debit", !.op = "send",
                                        !.user = sender_id, !.taker = receiver_id,
                                        !.amount = amount, !.cur = currency_ticker,
                                        !.tax_percentage = tax_percentage,
                                        !.tax_amount = tax_amount]]
    /\ UNCHANGED <<balance, swaps, transactions, delta, ret, wirevars, ratevars, pairlog, auxvars, tradelog, orphan>>

\* lines 101-103: deduct total_deduction from the sender
ExecuteSendDebit(p) ==
    /\ proc[p].pc = "s_debit"
    /\ balance' = update_balance(balance, <<proc[p].user, proc[p].cur>>,
                                 -(proc[p].amount + proc[p].tax_amount))
    /\ Goto(p, "s_credit")
    /\ UNCHANGED <<accounts, swaps, transactions, calls, delta, ret, wirevars, ratevars, pairlog, auxvars, tradelog, orphan>>

\* lines 105-127: credit the amount to the receiver; when no tax was deducted,
\* log the transaction and return Ok
ExecuteSendCredit(p) ==
    /\ proc[p].pc = "s_credit"
    /\ balance' = update_balance(balance, <<proc[p].taker, proc[p].cur>>, proc[p].amount)
    /\ IF proc[p].tax_amount > 0
       THEN /\ transactions' = transactions
            /\ Goto(p, "s_tax")
       ELSE /\ transactions' = create_transaction(transactions, <<proc[p].user, proc[p].cur>>,
                                                  <<proc[p].taker, proc[p].cur>>, proc[p].amount)
            /\ Return(p)
    /\ UNCHANGED <<accounts, swaps, calls, delta, ret, wirevars, ratevars, pairlog, auxvars, tradelog, orphan>>

\* lines 109-127: add the tax to the tax account, log the transaction, return Ok
ExecuteSendTax(p) ==
    /\ proc[p].pc = "s_tax"
    /\ tax_account' = add_tax(tax_account, proc[p].cur, proc[p].tax_amount)
    /\ transactions' = create_transaction(transactions, <<proc[p].user, proc[p].cur>>,
                                          <<proc[p].taker, proc[p].cur>>, proc[p].amount)
    /\ Return(p)
    /\ UNCHANGED <<ledger, swaps, calls, delta, ret, wirevars, ratevars, pairlog,
                   taxlog, envelopes, gatevars, tradelog, orphan>>

----------------------------------------------------------------------------
(* The swap engine and transfers, running concurrently *)

Next ==
    \E p \in Procs :
        \/ \E u \in Users, m \in MakerAmounts, c \in Curs :
               ExecuteSwapStart(p, u, m, c, 0, 0, "none")
        \/ \E u \in Users, m \in MakerAmounts, c \in Curs,
              t \in Users, ta \in TakerAmounts, tc \in Curs :
               ExecuteSwapStart(p, u, m, c, t, ta, tc)
        \/ ExecuteSwapCheckTaker(p)
        \/ ExecuteSwapDebit(p)
        \/ ExecuteSwapInsert(p)
        \/ \E u \in Users, id \in SwapIds : AcceptSwapStart(p, u, id)
        \/ AcceptSwapCheck(p)
        \/ AcceptSwapDebit(p)
        \/ AcceptSwapStatus(p)
        \/ AcceptSwapCreditUser(p)
        \/ AcceptSwapCreditMaker(p)
        \/ AcceptSwapLog(p)
        \/ \E u \in Users, id \in SwapIds : DenySwapStart(p, u, id)
        \/ DenySwapStatus(p)
        \/ DenySwapRefundMaker(p)
        \/ DenySwapRefundTaker(p)
        \/ \E u \in Users, r \in Users, a \in SendAmounts, c \in Curs : ExecuteSendStart(p, u, r, a, c)
        \/ ExecuteSendDebit(p)
        \/ ExecuteSendCredit(p)

Spec == Init /\ [][Next]_vars

\* The swap engine when open swaps may also name what the maker asks for
\* (`$swap 10 ABC 5 XYZ`, commands/swap.rs lines 205-226): execute_swap receives
\* taker_id = None with Some(taker_amount), Some(taker_ticker).
TermsNext ==
    \/ Next
    \/ \E p \in Procs, u \in Users, m \in MakerAmounts, c \in Curs,
          ta \in TakerAmounts, tc \in Curs :
           ExecuteSwapStart(p, u, m, c, 0, ta, tc)

TermsSpec == Init /\ [][TermsNext]_vars

----------------------------------------------------------------------------
(* The swap engine when a statement can fail: every awaited statement of       *)
(* execute_swap and accept_swap is followed by map_err(..)?, which returns the *)
(* error to the caller; nothing is rolled back, since no transaction is open.  *)

\* lines 113-122 and 167-176: insert_swap returns Err after the debit was issued
ExecuteSwapInsertFails(p) ==
    /\ proc[p].pc = "c_insert"
    /\ orphan' = [a \in Acct |-> orphan[a] + proc[p].eff[a]]
    /\ Return(p)
    /\ UNCHANGED <<accounts, balance, swaps, transactions, calls, delta, ret, wirevars, ratevars, pairlog, auxvars, tradelog>>

\* lines 299-377: the statement the handler is about to run returns Err; of the
\* two transaction inserts either the first fails (first_logged FALSE) or the second
AcceptSwapStatementFails(p, first_logged) ==
    /\ proc[p].pc \in {"a_debit", "a_status", "a_credit_user", "a_credit_maker", "a_log"}
    /\ first_logged => proc[p].pc = "a_log"
    /\ LET det == proc[p].det
           maker_discord_id == get_discord_id_by_account_id(det.maker_id)
           user_taker_account_id == <<proc[p].user, det.taker_currency_id>>
           maker_taker_account_id == <<maker_discord_id, det.taker_currency_id>>
       IN /\ transactions' =
                 IF first_logged
                 THEN create_transaction(transactions, user_taker_account_id,
                                         maker_taker_account_id, det.taker_amount)
                 ELSE transactions
          /\ ret' = [ret EXCEPT ![proc[p].sid].acceptErr = @ + 1,
                                 ![proc[p].sid].legs =
                                     @ \o SubSeq(transactions', Len(transactions) + 1,
                                                 Len(transactions'))]
    /\ Return(p)
    /\ UNCHANGED <<accounts, balance, swaps, calls, delta, wirevars, ratevars, pairlog, auxvars, tradelog, orphan>>

FaultNext ==
    \/ Next
    \/ \E p \in Procs : ExecuteSwapInsertFails(p)
    \/ \E p \in Procs, first_logged \in BOOLEAN : AcceptSwapStatementFails(p, first_logged)

FaultSpec == Init /\ [][FaultNext]_vars

----------------------------------------------------------------------------
(* commands/swap.rs: the creation branch of execute, which parses the amounts  *)
(* and tickers of `$swap` and calls execute_swap                               *)

\* what a user may type: amounts that are not positive, a ticker no currency has
SwapAmountArgs == {-1, 0, 2}
Tickers == {"ABC", "NOPE"}

\* variant of the amount check that lets every amount through
positive_Any(amount) == TRUE

\* lines 165, 199, 219: `amount <= 0.0` is answered "Amount must be positive"
positive(amount) == amount > 0

\* lines 155-241; taker_id = 0 and taker_ticker = "none" stand for None
SwapCommand(p, maker_id, maker_amount, maker_ticker, taker_id, taker_amount, taker_ticker) ==
    IF ~positive(maker_amount) \/ (taker_ticker # "none" /\ ~positive(taker_amount))
    THEN /\ Start(p)
         /\ UNCHANGED <<ledger, swapvars, proc, wirevars, ratevars, pairlog, auxvars>>
    ELSE ExecuteSwapStart(p, maker_id, maker_amount, maker_ticker, taker_id, taker_amount, taker_ticker)

CommandNext ==
    \E p \in Procs :
        \/ \E u \in Users, m \in SwapAmountArgs, c \in Tickers :
               SwapCommand(p, u, m, c, 0, 0, "none")
        \/ \E u \in Users, m \in MakerAmounts, c \in Tickers,
              t \in Users, ta \in SwapAmountArgs, tc \in Tickers :
               SwapCommand(p, u, m, c, t, ta, tc)
        \/ ExecuteSwapCheckTaker(p)
        \/ ExecuteSwapDebit(p)
        \/ ExecuteSwapInsert(p)

CommandSpec == Init /\ [][CommandNext]_vars

----------------------------------------------------------------------------
(* utils/encryption.rs: encrypt_token and decrypt_token.  A byte is a number   *)
(* in 0..255, a token a sequence of code points, a base64 string a sequence of *)
(* sextets (64 is the padding character), a hex string a sequence of digits.   *)

NONCE_LEN == 12
KEY_LEN == 32
VERSION == 1
MIN_LEN == 13
MaxCrypto == 3

Ok(v) == [ok |-> TRUE, val |-> v, err |-> "none"]
Err(e) == [ok |-> FALSE, val |-> <<>>, err |-> e]

\* the tokens and keys of the model: tokens with and without a two-byte
\* character, two keys of 64 hex digits and one that is too short
Tokens == {<<>>, <<65>>, <<65, 233>>}
KeyHexes == {[i \in 1..(2 * KEY_LEN) |-> i % 16], [i \in 1..(2 * KEY_LEN) |-> (3 * i) % 16], <<1, 2>>}
\* OsRng: the n-th value it gives; the values are taken to be distinct
OsRng(n) == [i \in 1..NONCE_LEN |-> (n * i) % 256]

\* token.as_bytes(): the UTF-8 encoding (code points below 2048)
RECURSIVE as_bytes(_)
as_bytes(token) ==
    IF token = <<>> THEN <<>>
    ELSE LET cp == Head(token)
         IN (IF cp < 128 THEN <<cp>> ELSE <<192 + (cp \div 64), 128 + (cp % 64)>>)
            \o as_bytes(Tail(token))

\* String::from_utf8
RECURSIVE from_utf8(_)
from_utf8(bytes) ==
    IF bytes = <<>> THEN Ok(<<>>)
    ELSE LET b == Head(bytes)
         IN IF b < 128
            THEN LET rest == from_utf8(Tail(bytes))
                 IN IF rest.ok THEN Ok(<<b>> \o rest.val) ELSE rest
            ELSE IF b >= 194 /\ b <= 223 /\ Len(bytes) >= 2 /\ bytes[2] >= 128 /\ bytes[2] <= 191
            THEN LET rest == from_utf8(Tail(Tail(bytes)))
                 IN IF rest.ok THEN Ok(<<(b - 192) * 64 + (bytes[2] - 128)>> \o rest.val) ELSE rest
            ELSE Err("Utf8Error")

\* hex::decode
hex_decode(h) ==
    IF Len(h) % 2 # 0 \/ \E i \in 1..Len(h) : h[i] \notin 0..15
    THEN Err("HexDecode")
    ELSE Ok([i \in 1..(Len(h) \div 2) |-> 16 * h[2 * i - 1] + h[2 * i]])

\* BASE64.encode: three bytes to four sextets, padded with '='
BASE64_encode(b) ==
    LET n == Len(b)
        at(i) == IF i <= n THEN b[i] ELSE 0
    IN [k \in 1..(4 * ((n + 2) \div 3)) |->
           LET g == (k - 1) \div 4
               j == (k - 1) % 4
               v == at(3 * g + 1) * 65536 + at(3 * g + 2) * 256 + at(3 * g + 3)
           IN IF (j = 2 /\ 3 * g + 2 > n) \/ (j = 3 /\ 3 * g + 3 > n)
              THEN 64
              ELSE (v \div (64 ^ (3 - j))) % 64]

\* BASE64.decode
BASE64_decode(s) ==
    LET n == Len(s)
        pads == Cardinality({k \in 1..n : s[k] = 64})
        q(k) == IF s[k] = 64 THEN 0 ELSE s[k]
    IN IF \/ n % 4 # 0
          \/ \E k \in 1..n : s[k] \notin 0..64
          \/ \E k \in 1..n : s[k] = 64 /\ (k < n - 1 \/ s[n] # 64)
       THEN Err("Base64Decode")
       ELSE Ok([i \in 1..(3 * (n \div 4) - pads) |->
                  LET g == (i - 1) \div 3
                      j == (i - 1) % 3
                      v == q(4 * g + 1) * 262144 + q(4 * g + 2) * 4096
                           + q(4 * g + 3) * 64 + q(4 * g + 4)
                  IN (v \div (256 ^ (2 - j))) % 256])

\* Aes256Gcm stands outside the repository: it is modelled as a stream cipher
\* keyed by key and nonce, followed by an authentication tag
keystream(key, nonce, i) ==
    (key[((i - 1) % KEY_LEN) + 1] + nonce[((i - 1) % NONCE_LEN) + 1] + i) % 256

RECURSIVE Total(_)
Total(seq) == IF seq = <<>> THEN 0 ELSE Head(seq) + Total(Tail(seq))

tag(key, nonce, plaintext) == (Total(key) + Total(nonce) + Total(plaintext)) % 256

cipher_encrypt(key, nonce, plaintext) ==
    [i \in 1..Len(plaintext) |-> (plaintext[i] + keystream(key, nonce, i)) % 256]
        \o <<tag(key, nonce, plaintext)>>

cipher_decrypt(key, nonce, ciphertext) ==
    IF ciphertext = <<>> THEN Err("Decryption")
    ELSE LET plaintext == [i \in 1..(Len(ciphertext) - 1) |->
                              (ciphertext[i] + 256 - keystream(key, nonce, i)) % 256]
         IN IF tag(key, nonce, plaintext) = ciphertext[Len(ciphertext)]
            THEN Ok(plaintext) ELSE Err("Decryption")

\* lines 30-62; nonce_bytes is what OsRng filled in
encrypt_token(token, key_hex, nonce_bytes) ==
    LET key_bytes == hex_decode(key_hex)
    IN IF ~key_bytes.ok THEN Err("HexDecode")
       ELSE IF Len(key_bytes.val) # KEY_LEN THEN Err("InvalidKey")
       ELSE LET ciphertext == cipher_encrypt(key_bytes.val, nonce_bytes, as_bytes(token))
                encrypted_data == <<VERSION>> \o nonce_bytes \o ciphertext
            IN Ok(BASE64_encode(encrypted_data))

\* variant of decrypt_token that does not look at the version byte
decrypt_token_Unversioned(encrypted_b64, key_hex) ==
    LET encrypted_data == BASE64_decode(encrypted_b64)
    IN IF ~encrypted_data.ok THEN Err("Base64Decode")
       ELSE IF Len(encrypted_data.val) < MIN_LEN THEN Err("InvalidData")
       ELSE LET key_bytes == hex_decode(key_hex)
            IN IF ~key_bytes.ok THEN Err("HexDecode")
               ELSE IF Len(key_bytes.val) # KEY_LEN THEN Err("InvalidKey")
               ELSE LET nonce == SubSeq(encrypted_data.val, 2, MIN_LEN)
                        ciphertext == SubSeq(encrypted_data.val, MIN_LEN + 1,
                                             Len(encrypted_data.val))
                        plaintext == cipher_decrypt(key_bytes.val, nonce, ciphertext)
                    IN IF ~plaintext.ok THEN Err("Decryption")
                       ELSE from_utf8(plaintext.val)

\* lines 66-115
decrypt_token(encrypted_b64, key_hex) ==
    LET encrypted_data == BASE64_decode(encrypted_b64)
    IN IF ~encrypted_data.ok THEN Err("Base64Decode")
       ELSE IF Len(encrypted_data.val) < MIN_LEN THEN Err("InvalidData")
       ELSE IF encrypted_data.val[1] # VERSION THEN Err("InvalidData")
       ELSE LET key_bytes == hex_decode(key_hex)
            IN IF ~key_bytes.ok THEN Err("HexDecode")
               ELSE IF Len(key_bytes.val) # KEY_LEN THEN Err("InvalidKey")
               ELSE LET nonce == SubSeq(encrypted_data.val, 2, MIN_LEN)
                        ciphertext == SubSeq(encrypted_data.val, MIN_LEN + 1,
                                             Len(encrypted_data.val))
                        plaintext == cipher_decrypt(key_bytes.val, nonce, ciphertext)
                    IN IF ~plaintext.ok THEN Err("Decryption")
                       ELSE from_utf8(plaintext.val)

\* what reaches decrypt_token: an envelope as stored, cut short, or with another
\* version byte
Tampers == {"asis", "short", "version"}

Tamper(encrypted_b64, how) ==
    LET data == BASE64_decode(encrypted_b64).val
    IN CASE how = "short" -> BASE64_encode(SubSeq(data, 1, MIN_LEN - 1))
         [] how = "version" -> BASE64_encode([data EXCEPT ![1] = VERSION + 1])
         [] OTHER -> encrypted_b64

\* a call of encrypt_token
EncryptToken(token, key_hex) ==
    /\ Len(envelopes) < MaxCrypto
    /\ LET nonce_bytes == OsRng(Cardinality({i \in 1..Len(envelopes) : envelopes[i].op = "encrypt"}) + 1)
       IN envelopes' = Append(envelopes,
                              [op |-> "encrypt", token |-> token, key_hex |-> key_hex,
                               nonce |-> nonce_bytes, input |-> <<>>,
                               result |-> encrypt_token(token, key_hex, nonce_bytes)])
    /\ UNCHANGED <<ledger, swapvars, proc, calls, wirevars, ratevars, pairlog, taxvars, gatevars>>

\* a call of decrypt_token on the i-th envelope made so far
DecryptToken(i, how, key_hex) ==
    /\ Len(envelopes) < MaxCrypto
    /\ i \in 1..Len(envelopes)
    /\ envelopes[i].op = "encrypt" /\ envelopes[i].result.ok
    /\ LET encrypted_b64 == Tamper(envelopes[i].result.val, how)
       IN envelopes' = Append(envelopes,
                              [op |-> "decrypt", token |-> <<>>, key_hex |-> key_hex,
                               nonce |-> <<>>, input |-> encrypted_b64,
                               result |-> decrypt_token(encrypted_b64, key_hex)])
    /\ UNCHANGED <<ledger, swapvars, proc, calls, wirevars, ratevars, pairlog, taxvars, gatevars>>

CryptoNext ==
    \/ \E t \in Tokens, k \in KeyHexes : EncryptToken(t, k)
    \/ \E i \in 1..MaxCrypto, h \in Tampers, k \in KeyHexes : DecryptToken(i, h, k)

CryptoSpec == Init /\ [][CryptoNext]_vars

----------------------------------------------------------------------------
(* services/tax_service.rs: set_tax and collect_tax, with the taxed transfer *)

\* set_tax, lines 7-40: the percentage is validated by the caller's range check,
\* the tax account is created when the currency has none
SetTax(currency_id, tax_percentage) ==
    /\ tax_percentage >= 0 /\ tax_percentage <= 100
    /\ tax_account' = IF get_tax_account(tax_account, currency_id).exists
                      THEN set_tax_percentage(tax_account, currency_id, tax_percentage)
                      ELSE create_tax_account(tax_account, currency_id, tax_percentage)
    /\ tax_account' # tax_account
    /\ UNCHANGED <<ledger, swapvars, proc, calls, wirevars, ratevars, pairlog,
                   taxlog, envelopes, gatevars>>

CollectReturn(user_id, currency_id, amount, current_balance, collected, result) ==
    [n |-> taxlog.n + 1, user |-> user_id, cur |-> currency_id, requested |-> amount,
     pool |-> current_balance, collected |-> collected, result |-> result]

\* collect_tax of the service, lines 49-82: read the tax account, refuse an empty
\* pool, a non-positive amount and an amount above the pool
CollectTaxStart(p, user_id, currency_id, amount) ==
    /\ Start(p)
    /\ LET row == get_tax_account(tax_account, currency_id)
           current_balance == row.balance
           collect_amount == IF amount.all THEN current_balance ELSE amount.value
           refusal == IF ~row.exists THEN "NoTaxAccount"
                      ELSE IF current_balance <= 0 THEN "NoTaxes"
                      ELSE IF collect_amount <= 0 THEN "NotPositive"
                      ELSE IF collect_amount > current_balance THEN "Insufficient"
                      ELSE "none"
       IN IF refusal # "none"
          THEN /\ proc' = proc
               /\ taxlog' = CollectReturn(user_id, currency_id, amount, current_balance, 0, refusal)
          ELSE /\ proc' = [proc EXCEPT ![p] =
                       [Idle EXCEPT !.pc = "t_read", !.op = "collect", !.user = user_id,
                                    !.cur = currency_id, !.requested = amount,
                                    !.current_balance = current_balance,
                                    !.amount = collect_amount]]
               /\ taxlog' = taxlog
    /\ UNCHANGED <<ledger, swapvars, wirevars, ratevars, pairlog, tax_account, envelopes, gatevars>>

\* db::tax::collect_tax, lines 109-124: read the balance again, collect no more than it
CollectTaxRead(p) ==
    /\ proc[p].pc = "t_read"
    /\ LET current_balance == get_tax_account(tax_account, proc[p].cur).balance
           collect_amount == IF proc[p].amount >= current_balance
                             THEN current_balance ELSE proc[p].amount
       IN proc' = [proc EXCEPT ![p].pc = "t_deduct", ![p].collect_amount = collect_amount]
    /\ UNCHANGED <<ledger, swapvars, calls, wirevars, ratevars, pairlog, auxvars>>

\* db::tax::collect_tax, lines 126-135: deduct from the tax account
CollectTaxDeduct(p) ==
    /\ proc[p].pc = "t_deduct"
    /\ tax_account' = deduct_tax(tax_account, proc[p].cur, proc[p].collect_amount)
    /\ Goto(p, "t_account")
    /\ UNCHANGED <<ledger, swapvars, calls, wirevars, ratevars, pairlog,
                   taxlog, envelopes, gatevars>>

\* db::account::add_balance, lines 117-120: get or create the collector's account
CollectTaxAccount(p) ==
    /\ proc[p].pc = "t_account"
    /\ accounts' = create_account(accounts, proc[p].user, proc[p].cur)
    /\ Goto(p, "t_credit")
    /\ UNCHANGED <<balance, swapvars, calls, wirevars, ratevars, pairlog, auxvars>>

\* db::account::add_balance, lines 122-129, and lines 94-97 of the service: credit
\* the collected amount, return Ok
CollectTaxCredit(p) ==
    /\ proc[p].pc = "t_credit"
    /\ balance' = update_balance(balance, <<proc[p].user, proc[p].cur>>, proc[p].collect_amount)
    /\ taxlog' = CollectReturn(proc[p].user, proc[p].cur, proc[p].requested,
                               proc[p].current_balance, proc[p].collect_amount, "ok")
    /\ Return(p)
    /\ UNCHANGED <<accounts, swapvars, calls, wirevars, ratevars, pairlog,
                   tax_account, envelopes, gatevars>>

\* transfers in currencies whose tax is being set
TransferNext ==
    \/ \E c \in Curs, t \in TaxPercents : SetTax(c, t)
    \/ \E p \in Procs :
        \/ \E u \in Users, r \in Users, a \in SendAmounts, c \in Curs : ExecuteSendStart(p, u, r, a, c)
        \/ ExecuteSendDebit(p)
        \/ ExecuteSendCredit(p)
        \/ ExecuteSendTax(p)

TransferSpec == Init /\ [][TransferNext]_vars

\* transfers and collections
TaxNext ==
    \/ TransferNext
    \/ \E p \in Procs :
        \/ \E u \in Users, c \in Curs, r \in CollectRequests : CollectTaxStart(p, u, c, r)
        \/ CollectTaxRead(p)
        \/ CollectTaxDeduct(p)
        \/ CollectTaxAccount(p)
        \/ CollectTaxCredit(p)

TaxSpec == Init /\ [][TaxNext]_vars

----------------------------------------------------------------------------
(* services/wire_service.rs: execute_wire_transfer, compensate_smite_balance *)

\* "amount as i64"
AsI64(amount) == amount \div MinorPerUnit

\* another handler wrote the row a running wire works on
Touch(pr, p, account_id) ==
    [q \in Procs |->
        IF q # p /\ pr[q].op = "wire" /\ <<pr[q].user, pr[q].cur>> = account_id
        THEN [pr[q] EXCEPT !.dirty = TRUE] ELSE pr[q]]

\* variant of the configuration step that goes on without a token or a key
load_ub_token_Unchecked(tokens, currency_ticker, encryption_key) == "ok"

\* lines 103-118: the stored token of the currency, then TOKEN_ENCRYPTION_KEY
\* from the environment ("unset": the variable is missing); a key that is set
\* is the one the token was encrypted with
load_ub_token(tokens, currency_ticker, encryption_key) ==
    IF currency_ticker \notin tokens THEN "InvalidConfig"
    ELSE IF encryption_key = "unset" THEN "InvalidConfig"
    ELSE "ok"

\* variant of the start of a wire in which wire_out does not check the local balance
WireStart_NoLocalCheck(p, user_id, direction, amount, currency_ticker, ub_get, encryption_key) ==
    /\ Begin(p, MaxWireCalls)
    /\ direction = "out" => ub_get = "ok"
    /\ LET config == load_ub_token(api_token, currency_ticker, encryption_key)
           begun == [Idle EXCEPT !.pc = "w_read", !.op = "wire", !.user = user_id,
                                 !.dir = direction, !.amount = amount,
                                 !.cur = currency_ticker, !.key = encryption_key,
                                 !.start = balance[<<user_id, currency_ticker>>],
                                 !.ub_bank_amount =
                                     IF config = "ok" /\ direction = "in" /\ ub_get = "ok"
                                     THEN ub_bank[user_id] ELSE 0]
           refused(result) ==
               /\ proc' = proc
               /\ wlog' = WireRecord(begun, result, FALSE, balance)
       IN IF config # "ok"
          THEN refused(config)
          ELSE IF direction = "in"
          THEN IF ub_get = "error"
               THEN refused("Api")
               ELSE IF begun.ub_bank_amount < AsI64(amount)
               THEN refused("InsufficientBalance")
               ELSE proc' = [proc EXCEPT ![p] = begun] /\ wlog' = wlog
          ELSE proc' = [proc EXCEPT ![p] = begun] /\ wlog' = wlog
    /\ UNCHANGED <<ledger, swapvars, ratevars, pairlog, auxvars, api_token, ub_bank>>

\* lines 93-178: token configured; the source-of-funds check.
\* ub_get is the outcome of the UnbelievaBoat balance query of wire_in,
\* encryption_key what this call finds in the environment.
WireStart(p, user_id, direction, amount, currency_ticker, ub_get, encryption_key) ==
    /\ Begin(p, MaxWireCalls)
    /\ direction = "out" => ub_get = "ok"
    /\ LET config == load_ub_token(api_token, currency_ticker, encryption_key)
           begun == [Idle EXCEPT !.pc = "w_read", !.op = "wire", !.user = user_id,
                                 !.dir = direction, !.amount = amount,
                                 !.cur = currency_ticker, !.key = encryption_key,
                                 !.start = balance[<<user_id, currency_ticker>>],
                                 !.ub_bank_amount =
                                     IF config = "ok" /\ direction = "in" /\ ub_get = "ok"
                                     THEN ub_bank[user_id] ELSE 0]
           refused(result) ==
               /\ proc' = proc
               /\ wlog' = WireRecord(begun, result, FALSE, balance)
       IN IF config # "ok"
          THEN refused(config)
          ELSE IF direction = "in"
          THEN IF ub_get = "error"
               THEN refused("Api")
               ELSE IF begun.ub_bank_amount < AsI64(amount)
               THEN refused("InsufficientBalance")
               ELSE proc' = [proc EXCEPT ![p] = begun] /\ wlog' = wlog
          ELSE IF balance[<<user_id, currency_ticker>>] < amount
               THEN refused("InsufficientBalance")
               ELSE proc' = [proc EXCEPT ![p] = begun] /\ wlog' = wlog
    /\ UNCHANGED <<ledger, swapvars, ratevars, pairlog, auxvars, api_token, ub_bank>>

\* lines 180-228: begin; the account row (wire_out: it must exist); read the balance
WireRead(p) ==
    /\ proc[p].pc = "w_read"
    /\ IF proc[p].dir = "out" /\ <<proc[p].user, proc[p].cur>> \notin accounts
       THEN /\ wlog' = WireRecord(proc[p], "InsufficientBalance", FALSE, balance)
            /\ Return(p)
       ELSE /\ wlog' = wlog
            /\ proc' = [proc EXCEPT ![p].pc = "w_commit",
                           ![p].current_smite_balance = balance[<<proc[p].user, proc[p].cur>>]]
    /\ UNCHANGED <<ledger, swapvars, ratevars, pairlog, auxvars, calls, api_token, ub_bank>>

new_smite_balance(direction, current_smite_balance, amount) ==
    IF direction = "in" THEN current_smite_balance + amount
                        ELSE current_smite_balance - amount

\* variant of the local commit that is put off until after the external call
WireCommit_Deferred(p) ==
    /\ proc[p].pc = "w_commit"
    /\ Goto(p, "w_ext_get")
    /\ UNCHANGED <<ledger, swapvars, calls, wirevars, ratevars, pairlog, auxvars, tradelog, orphan>>

\* lines 230-247: UPDATE account SET balance = new_smite_balance; commit
WireCommit(p) ==
    /\ proc[p].pc = "w_commit"
    /\ LET account_id == <<proc[p].user, proc[p].cur>>
       IN /\ accounts' = accounts \cup {account_id}
          /\ balance' = [balance EXCEPT ![account_id] =
                 new_smite_balance(proc[p].dir, proc[p].current_smite_balance, proc[p].amount)]
          /\ proc' = [Touch(proc, p, account_id) EXCEPT ![p].pc = "w_ext_get",
                                                        ![p].committed = TRUE]
    /\ UNCHANGED <<swapvars, calls, wirevars, ratevars, pairlog, auxvars, tradelog, orphan>>

\* lines 254-260 (wire_in) and 282-292 (wire_out): query the external balance again
WireExtGet(p, ub_get) ==
    /\ proc[p].pc = "w_ext_get"
    /\ IF ub_get = "ok"
       THEN /\ proc' = [proc EXCEPT ![p].pc = "w_ext_set",
                                    ![p].ub_bank_amount = ub_bank[proc[p].user]]
            /\ wlog' = wlog
       ELSE IF proc[p].dir = "in"
       THEN /\ wlog' = [WireRecord(proc[p], "Api", FALSE, balance) EXCEPT !.failed = "get"]
            /\ Return(p)
       ELSE /\ proc' = [proc EXCEPT ![p].pc = "w_comp", ![p].failed = "get"]
            /\ wlog' = wlog
    /\ UNCHANGED <<ledger, swapvars, ratevars, pairlog, auxvars, calls, api_token, ub_bank>>

new_ub_bank(direction, ub_bank_amount, amount) ==
    IF direction = "in" THEN ub_bank_amount - AsI64(amount)
                        ELSE ub_bank_amount + AsI64(amount)

\* lines 262-280 (wire_in) and 294-313 (wire_out): set the external balance
WireExtSet(p, ub_set) ==
    /\ proc[p].pc = "w_ext_set"
    /\ IF ub_set = "ok"
       THEN /\ ub_bank' = [ub_bank EXCEPT ![proc[p].user] =
                               new_ub_bank(proc[p].dir, proc[p].ub_bank_amount, proc[p].amount)]
            /\ wlog' = WireRecord(proc[p], "Ok", FALSE, balance)
            /\ Return(p)
       ELSE /\ ub_bank' = ub_bank
            /\ wlog' = wlog
            /\ proc' = [proc EXCEPT ![p].pc = "w_comp", ![p].failed = "set"]
    /\ UNCHANGED <<ledger, swapvars, ratevars, pairlog, auxvars, calls, api_token>>

\* variant of the compensation that commits without writing original_balance back
WireCompensate_NoRestore(p, db_ok) ==
    /\ proc[p].pc = "w_comp"
    /\ balance' = balance
    /\ wlog' = WireRecord(proc[p], IF db_ok THEN "Api" ELSE "CompensationFailed", db_ok, balance)
    /\ Return(p)
    /\ UNCHANGED <<accounts, swapvars, ratevars, pairlog, auxvars, calls, api_token, ub_bank>>

\* variant of the restoring statement that adds to the balance instead of setting it
compensate_smite_balance_Relative(bal, account_id, original_balance) ==
    [bal EXCEPT ![account_id] = @ + original_balance]

\* lines 356-368: UPDATE account SET balance = original_balance WHERE id = account_id
compensate_smite_balance(bal, account_id, original_balance) ==
    [bal EXCEPT ![account_id] = original_balance]

\* variant of the compensation that reports its own failure as the API error
WireCompensate_FailureAsApi(p, db_ok) ==
    /\ proc[p].pc = "w_comp"
    /\ LET account_id == <<proc[p].user, proc[p].cur>>
           restored == compensate_smite_balance(balance, account_id, proc[p].current_smite_balance)
       IN IF db_ok
          THEN /\ balance' = restored
               /\ wlog' = WireRecord(proc[p], "Api", TRUE, restored)
               /\ proc' = [Touch(proc, p, account_id) EXCEPT ![p] = Idle]
          ELSE /\ balance' = balance
               /\ wlog' = WireRecord(proc[p], "Api", FALSE, balance)
               /\ Return(p)
    /\ UNCHANGED <<accounts, swapvars, ratevars, pairlog, auxvars, calls, api_token, ub_bank>>

\* lines 342-386: compensate_smite_balance; db_ok is whether the compensating
\* transaction begins, executes and commits
WireCompensate(p, db_ok) ==
    /\ proc[p].pc = "w_comp"
    /\ LET account_id == <<proc[p].user, proc[p].cur>>
           restored == compensate_smite_balance(balance, account_id, proc[p].current_smite_balance)
       IN IF db_ok
          THEN /\ balance' = restored
               /\ wlog' = WireRecord(proc[p], "Api", TRUE, restored)
               /\ proc' = [Touch(proc, p, account_id) EXCEPT ![p] = Idle]
          ELSE /\ balance' = balance
               /\ wlog' = WireRecord(proc[p], "CompensationFailed", FALSE, balance)
               /\ Return(p)
    /\ UNCHANGED <<accounts, swapvars, ratevars, pairlog, auxvars, calls, api_token, ub_bank>>

WireNext ==
    \E p \in Procs :
        \/ \E u \in Users, a \in WireAmounts, c \in Curs, g \in {"ok", "notfound", "error"}, k \in Keys :
               WireStart(p, u, "in", a, c, g, k)
        \/ \E u \in Users, a \in WireAmounts, c \in Curs, k \in Keys :
               WireStart(p, u, "out", a, c, "ok", k)
        \/ WireRead(p)
        \/ WireCommit(p)
        \/ \E g \in {"ok", "error"} : WireExtGet(p, g)
        \/ \E r \in {"ok", "error"} : WireExtSet(p, r)
        \/ \E d \in BOOLEAN : WireCompensate(p, d)

WireSpec == Init /\ [][WireNext]_vars

----------------------------------------------------------------------------
(* db/tradelog.rs: normalize_pair, as called by price_service and chart_service *)

NormalizePair(currency_id_1, currency_id_2) ==
    /\ Len(pairlog) < MaxPairCalls
    /\ LET r == normalize_pair(currency_id_1, currency_id_2)
       IN pairlog' = Append(pairlog, [in1 |-> currency_id_1, in2 |-> currency_id_2,
                                      base |-> r[1], quote |-> r[2], reversed |-> r[3]])
    /\ UNCHANGED <<ledger, swapvars, proc, calls, wirevars, ratevars, auxvars>>

PairNext == \E c1 \in PairCurs, c2 \in PairCurs : NormalizePair(c1, c2)

PairSpec == Init /\ [][PairNext]_vars

----------------------------------------------------------------------------
(* utils/ub_ratelimit.rs: UbRateLimiter::check_and_record, rate_limit_ub_api *)

RECURSIVE prune(_, _)
\* lines 32-39: drop the timestamps older than the window from the front
prune(times, now) ==
    IF times # <<>> /\ now - Head(times) > window THEN prune(Tail(times), now) ELSE times

\* variant of check_and_record that starts to hold callers back one request late
check_and_record_OneLate(times, now) ==
    LET kept == prune(times, now)
    IN IF Len(kept) > max_requests /\ now - Head(kept) < window
       THEN [wait |-> window - (now - Head(kept)), request_times |-> kept]
       ELSE [wait |-> 0, request_times |-> Append(kept, now)]

\* lines 29-55: returns the wait and leaves request_times as given here
check_and_record(times, now) ==
    LET kept == prune(times, now)
    IN IF Len(kept) >= max_requests /\ now - Head(kept) < window
       THEN [wait |-> window - (now - Head(kept)), request_times |-> kept]
       ELSE [wait |-> 0, request_times |-> Append(kept, now)]

\* the pass through the limiter that a caller makes at the present instant
Pass(r) ==
    [n |-> lim.n + 1, first |-> IF lim.n = 0 THEN clock ELSE lim.first, now |-> clock,
     wait |-> r.wait,
     recorded |-> r.request_times = Append(prune(request_times, clock), clock)]

\* time passes
Tick ==
    /\ clock < MaxClock
    /\ clock' = clock + 1
    /\ UNCHANGED <<ledger, swapvars, proc, calls, wirevars, pairlog, auxvars, request_times, sleeping, issued, lim>>

\* lines 76-98: check_and_record called on a limiter directly
CheckAndRecord ==
    /\ lim.n < max_requests + 2
    /\ LET r == check_and_record(request_times, clock)
       IN /\ request_times' = r.request_times
          /\ lim' = Pass(r)
    /\ UNCHANGED <<ledger, swapvars, proc, calls, wirevars, pairlog, auxvars, clock, sleeping, issued>>

LimiterNext == Tick \/ CheckAndRecord

LimiterSpec == Init /\ [][LimiterNext]_vars

\* lines 59-69: a caller about to call the external service passes the limiter;
\* with a wait of zero it goes on to its call, otherwise it sleeps first
RateLimitUbApi ==
    /\ lim.n < MaxPasses
    /\ LET r == check_and_record(request_times, clock)
       IN /\ request_times' = r.request_times
          /\ lim' = Pass(r)
          /\ IF r.wait > 0
             THEN /\ sleeping' = [sleeping EXCEPT ![clock + r.wait] = @ + 1]
                  /\ issued' = issued
             ELSE /\ sleeping' = sleeping
                  /\ issued' = [issued EXCEPT ![clock] = @ + 1]
    /\ UNCHANGED <<ledger, swapvars, proc, calls, wirevars, pairlog, auxvars, clock>>

\* line 67 and after: tokio::time::sleep is over, the caller goes on to its call
Wake ==
    /\ \E t \in Ticks :
          /\ t <= clock
          /\ sleeping[t] > 0
          /\ sleeping' = [sleeping EXCEPT ![t] = @ - 1]
    /\ issued' = [issued EXCEPT ![clock] = @ + 1]
    /\ UNCHANGED <<ledger, swapvars, proc, calls, wirevars, pairlog, auxvars, request_times, clock, lim>>

ThrottleNext == Tick \/ RateLimitUbApi \/ Wake

ThrottleSpec == Init /\ [][ThrottleNext]_vars

----------------------------------------------------------------------------
(* utils/ratelimit.rs: check_cooldown, check_global_rate_limit;              *)
(* commands/mod.rs: the cooldown at the head of handle_message               *)
(* Each of the three reads the wall clock first and awaits its mutex after.  *)

\* SystemTime::now().duration_since(UNIX_EPOCH), as_secs() and as_millis()
as_secs(t) == t \div window

as_millis(t) == (t * RATE_WINDOW_MS) \div window

saturating_sub(a, b) == IF a > b THEN a - b ELSE 0

\* ratelimit.rs lines 47-53
should_warn(last_warning, last_time) ==
    IF last_warning # NoTime THEN last_warning < last_time ELSE TRUE

\* ratelimit.rs lines 37-69: what the call returns and the two maps as it leaves them
check_cooldown(cooldowns, warnings, key, now) ==
    LET last_time == cooldowns[key]
        elapsed == saturating_sub(now, last_time)
    IN IF last_time # NoTime /\ elapsed < COOLDOWN_SECONDS
       THEN LET warn == should_warn(warnings[key], last_time)
            IN [result |-> Err(<<COOLDOWN_SECONDS - elapsed, warn>>),
                cooldowns |-> cooldowns,
                warnings |-> IF warn THEN [warnings EXCEPT ![key] = now] ELSE warnings]
       ELSE [result |-> Ok(<<>>),
             cooldowns |-> [cooldowns EXCEPT ![key] = now],
             warnings |-> warnings]

\* commands/mod.rs lines 44-58: Some(remaining) or None, and the map
should_cooldown(cooldowns, key, now) ==
    LET last_time == cooldowns[key]
        elapsed == saturating_sub(now, last_time)
    IN IF last_time # NoTime /\ elapsed < COOLDOWN_SECONDS
       THEN [some |-> TRUE, remaining |-> COOLDOWN_SECONDS - elapsed, cooldowns |-> cooldowns]
       ELSE [some |-> FALSE, remaining |-> 0, cooldowns |-> [cooldowns EXCEPT ![key] = now]]

\* ratelimit.rs line 87
retain(requests, window_start) ==
    SelectSeq(requests, LAMBDA timestamp : timestamp > window_start)

\* ratelimit.rs lines 82-100: what the call returns and GLOBAL_REQUESTS as it leaves it
check_global_rate_limit(requests, now) ==
    LET window_start == saturating_sub(now, RATE_WINDOW_MS)
        kept == retain(requests, window_start)
    IN IF Len(kept) >= GLOBAL_RATE_LIMIT
       THEN [result |-> Err(saturating_sub(kept[1] + RATE_WINDOW_MS, now)), requests |-> kept]
       ELSE [result |-> Ok(<<>>), requests |-> Append(kept, now)]

\* the decision a gate has just made, added to the history
Decided(fn, key, now, ok, remaining, warn) ==
    [admitlog EXCEPT !.fn = fn, !.key = key, !.at = system_time, !.now = now,
                     !.ok = ok, !.remaining = remaining, !.warn = warn]

DecidedCooldown(fn, key, now, ok, remaining, warn) ==
    [Decided(fn, key, now, ok, remaining, warn) EXCEPT
        !.admitted_at[fn][key] = IF ok THEN system_time ELSE @,
        !.rejected[fn][key] = ~ok]

\* a second passes on the wall clock
SecondPasses ==
    /\ as_secs(system_time) < MaxSeconds
    /\ system_time' = system_time + window
    /\ UNCHANGED <<ledger, swapvars, proc, calls, wirevars, ratevars, pairlog, taxvars, envelopes,
                   ratelimit, command_cooldowns, admitlog>>

\* a tick passes on the wall clock, which is followed for one window; the
\* history keeps the admissions of the window that ends now
SystemTick ==
    /\ system_time < 2 * window
    /\ system_time' = system_time + 1
    /\ admitlog' = [admitlog EXCEPT !.admitted =
                        [t \in Ticks |-> IF t > system_time' - window THEN @[t] ELSE 0]]
    /\ UNCHANGED <<ledger, swapvars, proc, calls, wirevars, ratevars, pairlog, taxvars, envelopes,
                   ratelimit, command_cooldowns>>

\* ratelimit.rs lines 29-35: the clock is read, the lock is awaited next
CheckCooldownStart(p, user_id, command) ==
    /\ Begin(p, MaxGateCalls)
    /\ proc' = [proc EXCEPT ![p] = [Idle EXCEPT !.pc = "k_lock", !.op = "check_cooldown",
                                                !.user = user_id, !.command = command,
                                                !.now = as_secs(system_time)]]
    /\ UNCHANGED <<ledger, swapvars, wirevars, ratevars, pairlog, taxvars, envelopes, gatevars>>

\* ratelimit.rs lines 37-71: under the lock
CheckCooldownLocked(p) ==
    /\ proc[p].op = "check_cooldown" /\ proc[p].pc = "k_lock"
    /\ LET key == <<proc[p].user, proc[p].command>>
           r == check_cooldown(ratelimit.COMMAND_COOLDOWNS, ratelimit.COOLDOWN_WARNINGS,
                               key, proc[p].now)
       IN /\ ratelimit' = [ratelimit EXCEPT !.COMMAND_COOLDOWNS = r.cooldowns,
                                            !.COOLDOWN_WARNINGS = r.warnings]
          /\ admitlog' = IF r.result.ok
                         THEN DecidedCooldown("check_cooldown", key, proc[p].now, TRUE, 0, FALSE)
                         ELSE DecidedCooldown("check_cooldown", key, proc[p].now, FALSE,
                                              r.result.err[1], r.result.err[2])
    /\ Return(p)
    /\ UNCHANGED <<ledger, swapvars, calls, wirevars, ratevars, pairlog, taxvars, envelopes,
                   command_cooldowns, system_time>>

\* commands/mod.rs lines 26-41: a message of a user (not a bot) arrives, the
\* clock is read, the lock is awaited next
HandleMessageStart(p, user_id, command) ==
    /\ Begin(p, MaxGateCalls)
    /\ proc' = [proc EXCEPT ![p] = [Idle EXCEPT !.pc = "k_lock", !.op = "handle_message",
                                                !.user = user_id, !.command = command,
                                                !.now = as_secs(system_time)]]
    /\ UNCHANGED <<ledger, swapvars, wirevars, ratevars, pairlog, taxvars, envelopes, gatevars>>

\* commands/mod.rs lines 44-72: under the lock; a rejected message is answered
\* with the "Command Cooldown" embed (lines 60-70), an admitted one goes on to
\* its command (lines 74-93), which is the business of the other sections
HandleMessageLocked(p) ==
    /\ proc[p].op = "handle_message" /\ proc[p].pc = "k_lock"
    /\ LET key == <<proc[p].user, proc[p].command>>
           r == should_cooldown(command_cooldowns, key, proc[p].now)
       IN /\ command_cooldowns' = r.cooldowns
          /\ admitlog' = DecidedCooldown("handle_message", key, proc[p].now,
                                         ~r.some, r.remaining, r.some)
    /\ Return(p)
    /\ UNCHANGED <<ledger, swapvars, calls, wirevars, ratevars, pairlog, taxvars, envelopes,
                   ratelimit, system_time>>

CooldownNext ==
    \/ SecondPasses
    \/ \E p \in Procs, k \in CooldownKeys : CheckCooldownStart(p, k[1], k[2])
    \/ \E p \in Procs : CheckCooldownLocked(p)
    \/ \E p \in Procs, k \in CooldownKeys : HandleMessageStart(p, k[1], k[2])
    \/ \E p \in Procs : HandleMessageLocked(p)

CooldownSpec == Init /\ [][CooldownNext]_vars

\* ratelimit.rs lines 77-82: the clock is read, the lock is awaited next
CheckGlobalStart(p) ==
    /\ proc[p].pc = "idle"
    /\ \A q \in Procs : q < p => proc[q].pc # "idle"
    /\ proc' = [proc EXCEPT ![p] = [Idle EXCEPT !.pc = "g_lock", !.op = "check_global_rate_limit",
                                                !.now = as_millis(system_time)]]
    /\ UNCHANGED <<ledger, swapvars, calls, wirevars, ratevars, pairlog, taxvars, envelopes, gatevars>>

\* ratelimit.rs lines 84-100: under the lock
CheckGlobalLocked(p) ==
    /\ proc[p].op = "check_global_rate_limit" /\ proc[p].pc = "g_lock"
    /\ LET r == check_global_rate_limit(ratelimit.GLOBAL_REQUESTS, proc[p].now)
           d == Decided("check_global_rate_limit", <<0, "none">>, proc[p].now, r.result.ok,
                        IF r.result.ok THEN 0 ELSE r.result.err, FALSE)
       IN /\ ratelimit' = [ratelimit EXCEPT !.GLOBAL_REQUESTS = r.requests]
          /\ admitlog' = IF r.result.ok
                         THEN [d EXCEPT !.admitted[system_time] = @ + 1]
                         ELSE d
    /\ Return(p)
    /\ UNCHANGED <<ledger, swapvars, calls, wirevars, ratevars, pairlog, taxvars, envelopes,
                   command_cooldowns, system_time>>

GlobalNext ==
    \/ SystemTick
    \/ \E p \in Procs : CheckGlobalStart(p)
    \/ \E p \in Procs : CheckGlobalLocked(p)

GlobalSpec == Init /\ [][GlobalNext]_vars

----------------------------------------------------------------------------
(* Properties of the swap engine *)

Terminal == {"accepted", "cancelled"}

\* no accept or deny handler is working on swap s
Quiescent(s) ==
    \A p \in Procs : ~(proc[p].op \in {"accept", "deny"} /\ proc[p].sid = s)

RECURSIVE SumOver(_, _)
SumOver(f, S) ==
    IF S = {} THEN 0
    ELSE LET a == CHOOSE x \in S : TRUE IN f[a] + SumOver(f, S \ {a})

InCur(c) == {a \in Acct : a[2] = c}

\* the balance changes of one settlement of swap sw by the actor bound as its taker
OneSettlement(sw) ==
    LET actor == get_discord_id_by_account_id(sw.taker_id)
        maker == get_discord_id_by_account_id(sw.maker_id)
    IN [a \in Acct |->
           (IF a = <<actor, sw.taker_currency_id>> THEN -sw.taker_amount ELSE 0)
         + (IF a = <<actor, sw.maker_currency_id>> THEN sw.maker_amount ELSE 0)
         + (IF a = <<maker, sw.taker_currency_id>> THEN sw.taker_amount ELSE 0)]

\* C1: a swap's status only moves pending -> accepted or pending -> cancelled, and
\* once the swap is accepted or cancelled a step of any other accept or deny call
\* (one that did not itself write the terminal status) changes neither the swap
\* row nor any balance.
C1_TerminalIsFinal ==
    [][\A s \in 1..Len(swaps) :
          /\ swaps'[s].status # swaps[s].status
                => (swaps[s].status = "pending" /\ swaps'[s].status \in Terminal)
          /\ swaps[s].status \in Terminal
                => \A p \in Procs :
                       (/\ proc[p].op \in {"accept", "deny"}
                        /\ proc[p].sid = s
                        /\ ~proc[p].wrote
                        /\ proc'[p] # proc[p])
                       => (swaps'[s] = swaps[s] /\ balance' = balance)]_vars

\* C2: however many accept calls race on a swap, at most one returns Ok, and once
\* they have all returned the balances moved on the swap's behalf are those of
\* exactly one settlement (taker debited once, maker and taker credited once).
C2_SingleSettlement ==
    \A s \in 1..Len(swaps) :
        /\ ret[s].acceptOk <= 1
        /\ (Quiescent(s) /\ ret[s].acceptOk >= 1)
              => delta[s].accept = OneSettlement(swaps[s])

\* C3: the balance change made by the create call of every swap is exactly
\* -maker_amount on the maker's account and nothing on any other account (the
\* designated taker is not debited), and the swap is pending until an accept or
\* deny handler acts on it.
C3_CreateEscrows ==
    \A s \in 1..Len(swaps) :
        /\ delta[s].create =
               [a \in Acct |-> IF a = swaps[s].maker_id THEN -swaps[s].maker_amount ELSE 0]
        /\ (/\ delta[s].accept = ZeroDelta
            /\ delta[s].deny = ZeroDelta
            /\ \A p \in Procs : ~(proc[p].sid = s /\ proc[p].wrote))
              => swaps[s].status = "pending"

C3_Witness ==
    \E s \in 1..Len(swaps) :
        /\ swaps[s].status = "pending"
        /\ swaps[s].taker_id # NoAcct
        /\ swaps[s].taker_id # swaps[s].maker_id
        /\ balance[swaps[s].maker_id] = InitBalance - swaps[s].maker_amount
        /\ balance[swaps[s].taker_id] = InitBalance

\* C4: no account balance is ever negative.
C4_NoNegativeBalance ==
    \A a \in Acct : balance[a] >= 0

\* C5: for every accepted swap whose handlers have returned, the balance changes
\* of its create and accept steps sum to zero in each currency.
C5_Conservation ==
    \A s \in 1..Len(swaps) :
        (swaps[s].status = "accepted" /\ Quiescent(s))
            => \A c \in Curs :
                   SumOver(delta[s].create, InCur(c)) + SumOver(delta[s].accept, InCur(c)) = 0

\* C6: when a swap was denied and never accepted, the create and deny calls
\* together leave the maker's balance where it was before create, and the swap
\* is cancelled.
C6_DenyRestoresMaker ==
    \A s \in 1..Len(swaps) :
        (/\ ret[s].denyOk >= 1
         /\ Quiescent(s)
         /\ delta[s].accept = ZeroDelta
         /\ ret[s].acceptOk = 0)
            => /\ swaps[s].status = "cancelled"
               /\ delta[s].create[swaps[s].maker_id] + delta[s].deny[swaps[s].maker_id] = 0

\* C7: deny changes no balance other than the maker's.
C7_DenyRefundsOnlyEscrow ==
    \A s \in 1..Len(swaps) :
        \A a \in Acct : a # swaps[s].maker_id => delta[s].deny[a] = 0

\* C10: accept and deny never both take effect on one swap, and once the handlers
\* have returned the status is that of the call that succeeded.
C10_AcceptXorDeny ==
    \A s \in 1..Len(swaps) :
        /\ ~(ret[s].acceptOk >= 1 /\ ret[s].denyOk >= 1)
        /\ (Quiescent(s) /\ ret[s].acceptOk >= 1) => swaps[s].status = "accepted"
        /\ (Quiescent(s) /\ ret[s].denyOk >= 1) => swaps[s].status = "cancelled"

\* C11: an accept handler gets past the authorization only when its actor is the
\* designated taker (targeted swap) or is not the maker (open swap), and a call
\* refused as unauthorized changes no balance, no swap row and no transaction.
C11_AcceptAuthorization ==
    /\ [](\A p \in Procs :
             proc[p].op = "accept"
                 => IF proc[p].det.taker_id # NoAcct
                    THEN proc[p].user = proc[p].det.taker_id[1]
                    ELSE proc[p].user # swaps[proc[p].sid].maker_id[1])
    /\ [][\A s \in SwapIds :
             ret'[s].acceptUnauthorized # ret[s].acceptUnauthorized
                 => (balance' = balance /\ swaps' = swaps /\ transactions' = transactions)]_vars

C11_Witness ==
    \E s \in 1..Len(swaps) :
        /\ ret[s].acceptUnauthorized >= 1
        /\ ret[s].acceptOk >= 1
        /\ swaps[s].status = "accepted"

\* C12: a deny handler gets past the authorization only when its actor is the
\* maker or, for a targeted swap, the designated taker, and a call refused as
\* unauthorized leaves the swap pending and changes no balance.
C12_DenyAuthorization ==
    /\ [](\A p \in Procs :
             proc[p].op = "deny"
                 => \/ proc[p].user = swaps[proc[p].sid].maker_id[1]
                    \/ (proc[p].det.taker_id # NoAcct /\ proc[p].user = proc[p].det.taker_id[1]))
    /\ [][\A s \in SwapIds :
             ret'[s].denyUnauthorized # ret[s].denyUnauthorized
                 => (/\ balance' = balance
                     /\ swaps' = swaps
                     /\ swaps'[s].status = "pending")]_vars

C12_Witness ==
    \E s \in 1..Len(swaps) :
        /\ ret[s].denyUnauthorized >= 1
        /\ ret[s].denyOk >= 1
        /\ swaps[s].taker_id = NoAcct
        /\ swaps[s].status = "cancelled"

\* the two transaction records of one settlement of swap sw
SettlementLegs(sw) ==
    LET actor == get_discord_id_by_account_id(sw.taker_id)
        maker == get_discord_id_by_account_id(sw.maker_id)
    IN << [sender_id |-> <<actor, sw.taker_currency_id>>,
           receiver_id |-> <<maker, sw.taker_currency_id>>, amount |-> sw.taker_amount],
          [sender_id |-> sw.maker_id,
           receiver_id |-> <<actor, sw.maker_currency_id>>, amount |-> sw.maker_amount] >>

\* C13: once its handlers have returned, an accepted swap has exactly the two
\* transaction records of its settlement (acceptor -> maker for taker_amount,
\* maker -> acceptor for maker_amount), and a pending or cancelled swap has none.
C13_TwoRecords ==
    \A s \in 1..Len(swaps) :
        Quiescent(s)
            => /\ swaps[s].status = "accepted" => ret[s].legs = SettlementLegs(swaps[s])
               /\ swaps[s].status \in {"pending", "cancelled"} => ret[s].legs = <<>>

\* the trade-log entry of swap sw: canonical pair, price = quote amount / base amount
PriceLogOf(sw) ==
    LET pair == normalize_pair(sw.maker_currency_id, sw.taker_currency_id)
        price == IF pair[3] THEN <<sw.maker_amount, sw.taker_amount>>
                            ELSE <<sw.taker_amount, sw.maker_amount>>
    IN add_price_log(<<>>, pair[1], pair[2], price)[1]

\* C14: once its handlers have returned, an accepted swap has exactly one
\* trade-log entry, with the canonical pair and the price in canonical order.
C14_OneTradeLogEntry ==
    \A s \in 1..Len(swaps) :
        (swaps[s].status = "accepted" /\ Quiescent(s))
            => Cardinality({i \in 1..Len(tradelog) : tradelog[i] = PriceLogOf(swaps[s])}) = 1

\* the status an error text names
StatusNamed(msg) ==
    IF msg.arg # "" THEN msg.arg
    ELSE IF msg.text = "This swap has already been accepted!" THEN "accepted"
    ELSE IF msg.text \in {"This swap has been cancelled!", "This swap has already been cancelled!"}
         THEN "cancelled"
    ELSE IF msg.text = "This swap has expired!" THEN "expired"
    ELSE "none"

Last(seq) == seq[Len(seq)]

\* C15: an accept or deny handler gets past the status check only when the swap
\* it loaded was pending; a call on a swap that is not pending returns an error
\* naming the status the swap has, and changes no balance, swap row or
\* transaction.
C15_NotPendingRefused ==
    /\ [](\A p \in Procs :
             proc[p].op \in {"accept", "deny"} => proc[p].det.status = "pending")
    /\ [][\A s \in SwapIds :
             \A k \in {"acceptNotPending", "denyNotPending"} :
                 ret'[s][k] # ret[s][k]
                     => (/\ swaps[s].status # "pending"
                         /\ StatusNamed(Last(ret'[s][k])) = swaps[s].status
                         /\ balance' = balance
                         /\ swaps' = swaps
                         /\ transactions' = transactions)]_vars

C15_Witness ==
    \E s \in 1..Len(swaps) :
        /\ swaps[s].status = "cancelled"
        /\ Len(ret[s].acceptNotPending) >= 1
        /\ StatusNamed(Last(ret[s].acceptNotPending)) = "cancelled"

\* C16: an accept gets past the balance check only when the actor holds at least
\* the amount the swap asks for in the currency it asks for, for open swaps as
\* for targeted ones, and an accept refused at the check changes no balance and
\* no swap row.
C16_InsufficientRefused ==
    [][\A p \in Procs :
          proc[p].pc = "a_check"
              => LET asked == ret[proc[p].sid].asked
                 IN /\ (proc'[p].pc = "a_debit" /\ asked.taker_amount > 0)
                          => balance[<<proc[p].user, asked.taker_cur>>] >= asked.taker_amount
                    /\ proc'[p].pc = "idle"
                          => (balance' = balance /\ swaps' = swaps)]_vars

\* C17: no create call that returned an error has left a balance changed: a
\* failed insert of the swap row does not leave the escrow debit behind.
C17_CreateAtomic ==
    orphan = ZeroDelta

\* C18: when an accept returned a persistence error and nothing else acted on the
\* swap, none of the accept's effects persist: no balance moved, the swap is
\* pending and no transaction record was written.
C18_AcceptAtomic ==
    \A s \in 1..Len(swaps) :
        (/\ ret[s].acceptErr >= 1
         /\ ret[s].acceptOk = 0
         /\ ret[s].denyOk = 0
         /\ Quiescent(s))
            => /\ delta[s].accept = ZeroDelta
               /\ swaps[s].status = "pending"
               /\ ret[s].legs = <<>>

----------------------------------------------------------------------------
(* Properties of the wire bridge *)

\* C19: a wire_in gets past the source-of-funds check only when its amount is at
\* most the external balance it saw (0 for an account that does not exist), and
\* a wire_in refused with InsufficientBalance changes no local balance, creates
\* no local account and sends no update to the external service.
C19_WireInRefused ==
    /\ [](\A p \in Procs :
             (proc[p].op = "wire" /\ proc[p].dir = "in" /\ proc[p].pc = "w_read")
                 => proc[p].amount <= proc[p].ub_bank_amount * MinorPerUnit)
    /\ [][(wlog' # wlog /\ wlog'.dir = "in" /\ wlog'.result = "InsufficientBalance")
             => (balance' = balance /\ accounts' = accounts /\ ub_bank' = ub_bank)]_vars

\* C20: a wire_out gets past the source-of-funds check only when its amount is at
\* most the local balance at the check (0 when the account does not exist), and
\* a wire_out refused with InsufficientBalance has committed nothing, changes no
\* local balance and makes no call to the external service.
C20_WireOutRefused ==
    /\ [](\A p \in Procs :
             (proc[p].op = "wire" /\ proc[p].dir = "out" /\ proc[p].pc = "w_read")
                 => proc[p].amount <= proc[p].start)
    /\ [][(wlog' # wlog /\ wlog'.dir = "out" /\ wlog'.result = "InsufficientBalance")
             => (/\ ~wlog'.committed
                 /\ wlog'.amount > wlog'.start
                 /\ balance' = balance
                 /\ accounts' = accounts
                 /\ ub_bank' = ub_bank)]_vars

C20_Witness ==
    /\ wlog.dir = "out"
    /\ wlog.result = "InsufficientBalance"
    /\ wlog.amount > wlog.start
    /\ wlog.after = wlog.start
    /\ ~wlog.committed
    /\ ub_bank = [u \in Users |-> InitBank]

\* C21: a wire that is about to send a balance update to the external service
\* has committed its local transaction, on an account row that exists, and so
\* has every wire that returned Ok.
C21_CommitBeforeExternal ==
    /\ \A p \in Procs :
          proc[p].pc = "w_ext_set"
              => (proc[p].committed /\ <<proc[p].user, proc[p].cur>> \in accounts)
    /\ wlog.result = "Ok" => (wlog.committed /\ <<wlog.user, wlog.cur>> \in accounts)

C21_Witness ==
    /\ wlog.result = "Ok"
    /\ wlog.committed
    /\ wlog.dir = "in"
    /\ ub_bank[wlog.user] < InitBank
    /\ wlog.after > wlog.start

\* C22: a wire that reached the compensation (its external call failed after
\* the local commit) and whose compensating transaction did not go through
\* returned CompensationFailed, never the API error and never Ok, and no other
\* result stands for a failed compensation; the account, when no other handler
\* wrote it, holds the value the wire committed.  The handler has returned:
\* the compensation is not run again.
C22_CompensationFailed ==
    LET reached == /\ wlog.committed
                   /\ wlog.failed = "set" \/ (wlog.failed = "get" /\ wlog.dir = "out")
    IN /\ (reached /\ ~wlog.compensated)
             => /\ wlog.result = "CompensationFailed"
                /\ ~wlog.dirty
                      => wlog.after = new_smite_balance(wlog.dir, wlog.current_smite_balance,
                                                        wlog.amount)
       /\ wlog.result = "CompensationFailed" => (reached /\ ~wlog.compensated)
       /\ \A p \in Procs : proc[p].pc = "w_comp" => proc[p].failed # "none"

C22_Witness ==
    /\ wlog.result = "CompensationFailed"
    /\ wlog.committed
    /\ wlog.failed = "set"
    /\ ~wlog.dirty
    /\ ~wlog.compensated
    /\ wlog.after = new_smite_balance(wlog.dir, wlog.current_smite_balance, wlog.amount)
    /\ wlog.after # wlog.start

\* C26: for every wire that is about to compensate, running the compensation
\* twice in a row leaves the balances that running it once leaves, and once it
\* has run, the account no other handler wrote since is left as it is by one
\* more run.
C26_CompensationIdempotent ==
    /\ \A p \in Procs :
          proc[p].pc = "w_comp"
              => LET account_id == <<proc[p].user, proc[p].cur>>
                     original_balance == proc[p].current_smite_balance
                     once == compensate_smite_balance(balance, account_id, original_balance)
                 IN compensate_smite_balance(once, account_id, original_balance) = once
    /\ (wlog.compensated /\ ~wlog.dirty)
          => compensate_smite_balance([a \in Acct |-> wlog.after], <<wlog.user, wlog.cur>>,
                                      wlog.current_smite_balance)[<<wlog.user, wlog.cur>>]
                 = wlog.after

C26_Witness ==
    /\ wlog.compensated
    /\ wlog.result = "Api"
    /\ wlog.dir = "in"
    /\ wlog.failed = "set"
    /\ wlog.current_smite_balance > 0
    /\ wlog.after = wlog.current_smite_balance
    /\ compensate_smite_balance(balance, <<wlog.user, wlog.cur>>, wlog.current_smite_balance) = balance

\* C23: a wire of amount a that returns Ok has changed the external bank
\* balance by exactly a (wire_in: down, wire_out: up) and, no other handler
\* having written the account during the call, the local balance by exactly a
\* the other way.
C23_ExactTransfer ==
    [][\A p \in Procs :
          (proc[p].pc = "w_ext_set" /\ proc'[p].pc = "idle" /\ wlog'.result = "Ok")
              => LET signed == IF proc[p].dir = "in" THEN proc[p].amount ELSE -proc[p].amount
                 IN /\ (ub_bank'[proc[p].user] - ub_bank[proc[p].user]) * MinorPerUnit = -signed
                    /\ wlog'.dirty \/ wlog'.after - wlog'.start = signed]_vars

\* C24: no two wire_out handlers working on the same account have both
\* committed their debit when their amounts sum to more than the balance either
\* of them started from, and the debit a wire_out commits never leaves the
\* balance negative.
C24_CheckAndDebitAtomic ==
    /\ [](\A p, q \in Procs :
             (/\ p # q
              /\ proc[p].op = "wire" /\ proc[p].dir = "out" /\ proc[p].committed
              /\ proc[q].op = "wire" /\ proc[q].dir = "out" /\ proc[q].committed
              /\ proc[p].user = proc[q].user /\ proc[p].cur = proc[q].cur)
                 => proc[p].amount + proc[q].amount <= proc[p].start)
    /\ [][\A p \in Procs :
             (proc[p].pc = "w_commit" /\ proc[p].dir = "out" /\ proc'[p].committed)
                 => balance'[<<proc[p].user, proc[p].cur>>] >= 0]_vars

\* C25: no wire is under way for a currency without a stored token or
\* without the encryption key; a wire_in or wire_out called in either situation
\* returns InvalidConfig, and a wire that returns InvalidConfig has read and
\* changed no local balance, created no account and called the external
\* service not at all.
C25_InvalidConfigFirst ==
    /\ [](\A p \in Procs :
             proc[p].op = "wire" => (proc[p].cur \in api_token /\ proc[p].key = "set"))
    /\ [][(calls' # calls /\ proc' = proc
                /\ (wlog'.cur \notin api_token \/ wlog'.key = "unset"))
             => /\ wlog'.result = "InvalidConfig"
                /\ ~wlog'.committed
                /\ wlog'.current_smite_balance = 0 /\ wlog'.ub_bank_amount = 0
                /\ balance' = balance
                /\ accounts' = accounts
                /\ ub_bank' = ub_bank]_vars

C25_Witness ==
    /\ wlog.result = "InvalidConfig"
    /\ wlog.cur \in api_token
    /\ wlog.key = "unset"
    /\ wlog.dir = "out"
    /\ wlog.amount <= wlog.start
    /\ wlog.after = wlog.start
    /\ ub_bank = [u \in Users |-> InitBank]

----------------------------------------------------------------------------
(* Properties of the outbound limiter *)

\* C27: counted from an empty limiter, each of the first 20 requests made
\* within one window of the first is given a wait of zero and is recorded, and
\* the 21st request made within that window is given a wait above zero.
C27_LimiterAllowsThenHolds ==
    (lim.n >= 1 /\ lim.now - lim.first < window)
        => /\ lim.n <= max_requests => (lim.wait = 0 /\ lim.recorded)
           /\ lim.n = max_requests + 1 => (lim.wait > 0 /\ ~lim.recorded)

C27_Witness ==
    /\ lim.n = max_requests + 1
    /\ lim.wait > 0
    /\ lim.now > lim.first
    /\ lim.now - lim.first < window
    /\ Len(request_times) = max_requests

\* calls sent to the external service in the window that ends at tick t
IssuedInWindow(t) ==
    SumOver([u \in Ticks |-> issued[u]], {u \in Ticks : t - window < u /\ u <= t})

\* C28: no call is sent to the external service without a pass through the
\* limiter before it, and no window of one second holds more than 20 calls.
C28_OutboundQuota ==
    /\ SumOver([u \in Ticks |-> issued[u] + sleeping[u]], Ticks) = lim.n
    /\ \A t \in Ticks : IssuedInWindow(t) <= max_requests

----------------------------------------------------------------------------
(* Properties of the price queries *)

\* C29: normalize_pair called on (A, B) and on (B, A) returns the same base and
\* quote, the base being the currency whose ticker compares smaller, and for
\* A # B opposite reversed flags; called again on the same two currencies it
\* returns the same result.
C29_CanonicalPairSymmetry ==
    \A i, j \in 1..Len(pairlog) :
        LET a == pairlog[i]
            b == pairlog[j]
        IN /\ {a.base, a.quote} = {a.in1, a.in2}
           /\ TickerOrder[a.base] <= TickerOrder[a.quote]
           /\ a.reversed <=> (a.base # a.in1)
           /\ (a.in1 = b.in2 /\ a.in2 = b.in1)
                 => /\ a.base = b.base /\ a.quote = b.quote
                    /\ a.in1 # a.in2 => a.reversed # b.reversed
           /\ (a.in1 = b.in1 /\ a.in2 = b.in2) => a = b

C29_Witness ==
    /\ Len(pairlog) = 2
    /\ pairlog[1].in1 = "XYZ" /\ pairlog[1].in2 = "ABC"
    /\ pairlog[2].in1 = "ABC" /\ pairlog[2].in2 = "XYZ"
    /\ pairlog[1].base = "ABC" /\ pairlog[2].base = "ABC"
    /\ pairlog[1].quote = "XYZ" /\ pairlog[2].quote = "XYZ"
    /\ pairlog[1].reversed /\ ~pairlog[2].reversed

\* db/tradelog.rs lines 160-202: the sums over the accepted swaps whose maker
\* currency is the base and whose taker currency is the quote; every swap of a
\* run was created inside the timeframe asked for.  The price is the ratio
\* num / den.
calculate_vwap(sw, base_currency_id, quote_currency_id) ==
    LET rows == {i \in 1..Len(sw) : /\ sw[i].maker_currency_id = base_currency_id
                                     /\ sw[i].taker_currency_id = quote_currency_id
                                     /\ sw[i].status = "accepted"}
        total_taker == SumOver([i \in 1..Len(sw) |-> sw[i].taker_amount], rows)
        total_maker == SumOver([i \in 1..Len(sw) |-> sw[i].maker_amount], rows)
    IN IF total_maker > 0
       THEN [some |-> TRUE, num |-> total_taker, den |-> total_maker]
       ELSE [some |-> FALSE, num |-> 0, den |-> 0]

\* the accepted swaps between the two currencies of a pair, either way round
SwapsOfPair(sw, base, quote) ==
    {i \in 1..Len(sw) : /\ {sw[i].maker_currency_id, sw[i].taker_currency_id} = {base, quote}
                         /\ sw[i].status = "accepted"}

\* C30: for the canonical pair of two different currencies, calculate_vwap is
\* None exactly when no accepted swap trades the pair, and otherwise the sum of
\* the quote-currency amounts over the sum of the base-currency amounts of all
\* accepted swaps of the pair, whichever currency the maker offered.
C30_VwapOverAcceptedSwaps ==
    \A c1 \in Curs : \A c2 \in Curs \ {c1} :
        LET pair == normalize_pair(c1, c2)
            base == pair[1]
            quote == pair[2]
            rows == SwapsOfPair(swaps, base, quote)
            quoteAmount == [i \in 1..Len(swaps) |->
                               IF swaps[i].maker_currency_id = base
                               THEN swaps[i].taker_amount ELSE swaps[i].maker_amount]
            baseAmount == [i \in 1..Len(swaps) |->
                              IF swaps[i].maker_currency_id = base
                              THEN swaps[i].maker_amount ELSE swaps[i].taker_amount]
            vwap == calculate_vwap(swaps, base, quote)
        IN /\ vwap.some <=> rows # {}
           /\ vwap.some => vwap.num * SumOver(baseAmount, rows) = SumOver(quoteAmount, rows) * vwap.den

----------------------------------------------------------------------------
(* The tax ledger *)

Min(a, b) == IF a <= b THEN a ELSE b

\* C31: a collect asked for r on a pool holding p collects min(r, p) (p when asked
\* for "all"); the pool is never negative, also with two collects running
\* together; the pool's decrease and the collector's credit are one step.
C31_CollectMinAtomic ==
    /\ [](\A c \in Curs : tax_account[c].balance >= 0)
    /\ [][(/\ taxlog'.n # taxlog.n
           /\ taxlog'.pool > 0
           /\ taxlog'.requested.all \/ taxlog'.requested.value > 0)
          => /\ taxlog'.result = "ok"
             /\ taxlog'.collected = IF taxlog'.requested.all THEN taxlog'.pool
                                    ELSE Min(taxlog'.requested.value, taxlog'.pool)]_vars
    /\ [][\A c \in Curs :
            tax_account'[c].balance < tax_account[c].balance
            => \E u \in Users :
                 balance'[<<u, c>>] - balance[<<u, c>>]
                     = tax_account[c].balance - tax_account'[c].balance]_vars

----------------------------------------------------------------------------
(* Creation of a swap from the command *)

----------------------------------------------------------------------------
(* Token encryption *)

\* C34: with a key of 32 bytes, decrypt_token gives back the token of every envelope
\* encrypt_token made with that key; two encryptions of one token give different
\* envelopes; decrypt_token refuses an envelope of fewer than 13 bytes and one
\* whose version byte is not 1.
C34_EncryptRoundTrip ==
    \A i \in 1..Len(envelopes), j \in 1..Len(envelopes) :
        LET e == envelopes[i]
            d == envelopes[j]
        IN /\ (e.op = "encrypt" /\ Len(e.key_hex) = 2 * KEY_LEN) => e.result.ok
           /\ (e.op = "encrypt" /\ e.result.ok /\ d.op = "decrypt"
               /\ d.input = e.result.val /\ d.key_hex = e.key_hex)
              => d.result = Ok(e.token)
           /\ (e.op = "encrypt" /\ d.op = "encrypt" /\ i # j /\ e.result.ok /\ d.result.ok)
              => e.result.val # d.result.val
           /\ (d.op = "decrypt" /\ BASE64_decode(d.input).ok
               /\ (Len(BASE64_decode(d.input).val) < 13 \/ BASE64_decode(d.input).val[1] # 1))
              => d.result = Err("InvalidData")

\* a token with a two-byte character was encrypted twice and the second envelope
\* was decrypted
C34_Witness ==
    /\ Len(envelopes) = 3
    /\ envelopes[1].op = "encrypt" /\ envelopes[2].op = "encrypt"
    /\ envelopes[1].token = <<65, 233>> /\ envelopes[2].token = <<65, 233>>
    /\ envelopes[1].key_hex = envelopes[2].key_hex
    /\ envelopes[3].op = "decrypt" /\ envelopes[3].input = envelopes[2].result.val
    /\ envelopes[3].result = Ok(<<65, 233>>)

----------------------------------------------------------------------------
(* Conservation of each currency over the swap engine *)

\* what the accounts held in currency c when the ledger was set up
Supply(c) ==
    SumOver([a \in Acct |-> IF a \in {<<1, "ABC">>, <<1, "XYZ">>, <<2, "XYZ">>}
                            THEN InitBalance ELSE 0], InCur(c))

\* the maker amounts held by the pending swaps that offer currency c
Escrowed(c) ==
    SumOver([s \in 1..Len(swaps) |-> swaps[s].maker_amount],
            {s \in 1..Len(swaps) : swaps[s].status = "pending" /\ swaps[s].maker_currency_id = c})

\* C35: whenever no handler is running, the balances of each currency plus the
\* maker amounts held by pending swaps offering it add up to what they did at
\* the start: create, accept and deny move value, they make and destroy none.
C35_SupplyConserved ==
    (\A p \in Procs : proc[p].pc = "idle")
        => \A c \in Curs : SumOver(balance, InCur(c)) + Escrowed(c) = Supply(c)

----------------------------------------------------------------------------
(* Two wires on one account *)

\* C36: when the only two wire calls made are wire_in calls of whole units by one
\* user in one currency and both return Ok, the external bank balance has gone
\* down by the sum of the two amounts and the local balance up by the same sum.
C36_NoLostDecrement ==
    [][\A p \in Procs :
        LET w == proc[p]
            account_id == <<w.user, w.cur>>
        IN (/\ w.op = "wire" /\ w.pc = "w_ext_set" /\ proc'[p].pc = "idle"
            /\ wlog'.result = "Ok" /\ wlog.result = "Ok"
            /\ calls = 2
            /\ \A q \in Procs \ {p} : proc[q].pc = "idle"
            /\ w.dir = "in" /\ wlog.dir = "in"
            /\ wlog.user = w.user /\ wlog.cur = w.cur
            /\ w.amount % MinorPerUnit = 0 /\ wlog.amount % MinorPerUnit = 0)
           => /\ ub_bank'[w.user] = InitBank - (AsI64(wlog.amount) + AsI64(w.amount))
              /\ balance'[account_id] = wlog.start + wlog.amount + w.amount]_vars

\* C37: the local update of a wire changes the balance by the wire's amount,
\* whatever was committed to the account since the wire read it, and a
\* compensation takes back that amount and nothing else, whatever was committed
\* to the account since the wire's own commit.
C37_OwnChangeOnly ==
    [][\A p \in Procs :
        LET w == proc[p]
            account_id == <<w.user, w.cur>>
            own == new_smite_balance(w.dir, 0, w.amount)
        IN /\ (w.op = "wire" /\ w.pc = "w_commit" /\ proc'[p].pc = "w_ext_get")
              => balance'[account_id] = balance[account_id] + own
           /\ (w.op = "wire" /\ w.pc = "w_comp" /\ proc'[p].pc = "idle" /\ wlog'.compensated)
              => balance'[account_id] = balance[account_id] - own]_vars

\* C38: an open swap created asking for T of currency C is stored with those
\* terms, and once it has been accepted the acceptor has paid T of C and the
\* maker has been credited T of C: nobody takes the escrow without paying.
C38_OpenTermsKept ==
    \A s \in 1..Len(swaps) :
        (swaps[s].taker_id = NoAcct \/ ret[s].acceptOk >= 1) /\ ret[s].asked.taker_amount > 0
            => /\ swaps[s].taker_amount = ret[s].asked.taker_amount
               /\ swaps[s].taker_currency_id = ret[s].asked.taker_cur
               /\ (/\ Quiescent(s) /\ ret[s].acceptOk = 1 /\ ret[s].denyOk = 0
                   /\ ret[s].asked.taker_cur # swaps[s].maker_currency_id)
                     => /\ SumOver(delta[s].accept, InCur(ret[s].asked.taker_cur)) = 0
                        /\ \E a \in Acct : /\ a[2] = ret[s].asked.taker_cur
                                           /\ delta[s].accept[a] = -ret[s].asked.taker_amount

\* C8: a wire_out whose external call failed after the local commit never returns
\* Ok; when its compensation ran it returns the API error and, no other handler
\* having written the account during the call, the balance is the one from
\* before the call.
C8_WireOutRestored ==
    (wlog.dir = "out" /\ wlog.committed /\ wlog.failed # "none")
        => /\ wlog.result \in {"Api", "CompensationFailed"}
           /\ wlog.compensated
                 => (wlog.result = "Api" /\ (wlog.dirty \/ wlog.after = wlog.start))

C8_Witness ==
    /\ wlog.dir = "out"
    /\ wlog.committed
    /\ wlog.failed = "set"
    /\ wlog.compensated
    /\ ~wlog.dirty
    /\ wlog.result = "Api"
    /\ wlog.after = wlog.start
    /\ wlog.start = InitBalance

\* C9: a wire that returns the API error after its local commit has run the
\* compensating transaction.
C9_CompensatedBeforeError ==
    (wlog.result = "Api" /\ wlog.committed) => wlog.compensated

----------------------------------------------------------------------------
(* The admission gates *)

\* C39: for each (user, command) key an invocation is admitted exactly when no
\* admitted invocation of that key happened less than 5 seconds earlier; a
\* rejected one is told 5 - elapsed seconds, leaves the cooldown as it was, and
\* asks for a warning message only when it is the first rejection since the
\* last admitted invocation.
C39_CooldownGate ==
    [][\A p \in Procs :
          (proc[p].pc = "k_lock" /\ proc'[p].pc = "idle")
              => LET fn == proc[p].op
                     key == <<proc[p].user, proc[p].command>>
                     prev == admitlog.admitted_at[fn][key]
                     elapsed == as_secs(system_time) - as_secs(prev)
                     d == admitlog'
                 IN /\ d.ok <=> (prev = NoTime \/ elapsed >= COOLDOWN_SECONDS)
                    /\ ~d.ok => /\ d.remaining = COOLDOWN_SECONDS - elapsed
                                /\ ratelimit'.COMMAND_COOLDOWNS = ratelimit.COMMAND_COOLDOWNS
                                /\ command_cooldowns' = command_cooldowns
                                /\ d.warn <=> ~admitlog.rejected[fn][key]]_vars

\* the admissions of check_global_rate_limit in the window that ends now
WindowCount == SumOver(admitlog.admitted, Ticks)

\* the timestamps a list holds, and the oldest of them
Stamps(requests) == {requests[i] : i \in DOMAIN requests}

Oldest(requests) == CHOOSE t \in Stamps(requests) : \A u \in Stamps(requests) : t <= u

\* C40: check_global_rate_limit admits at most 50 requests in any window of
\* 1000 ms, GLOBAL_REQUESTS never holds more than 50 timestamps, and a rejected
\* request adds no timestamp and is told the time until the oldest recorded
\* request leaves the window.
C40_GlobalCap ==
    /\ [](WindowCount <= GLOBAL_RATE_LIMIT)
    /\ [](Len(ratelimit.GLOBAL_REQUESTS) <= GLOBAL_RATE_LIMIT)
    /\ [][\A p \in Procs :
            (proc[p].pc = "g_lock" /\ proc'[p].pc = "idle" /\ ~admitlog'.ok)
                => LET requests == ratelimit.GLOBAL_REQUESTS
                       kept == ratelimit'.GLOBAL_REQUESTS
                   IN /\ kept = SelectSeq(requests, LAMBDA t : t \in Stamps(kept))
                      /\ admitlog'.remaining
                            = Oldest(kept) + RATE_WINDOW_MS - as_millis(system_time)]_vars

====
